---- MODULE Spec2Model ----
(***************************************************************************)
(* Live-indexing subsystem of fs-text-search-mcp: the Text Index           *)
(* (search/text_index.rs), the update queue and its worker                 *)
(* (search/index_operation.rs), the directory watcher                      *)
(* (file/file_watcher.rs), the search tool (servers/search.rs) and the     *)
(* owning Application (application.rs).                                    *)
(*                                                                         *)
(* Paths are sequences of characters, so that the extension filter and     *)
(* starts_with are computed character by character as the code does.       *)
(* The full-text engine is modelled at its interface: the writer keeps an  *)
(* ordered log of staged operations (add_document, delete_term); a commit  *)
(* applies the log in opstamp order, a delete_term removing every document *)
(* of that file_path that was added before it; readers see the segments    *)
(* of the last commit only.                                                *)
(***************************************************************************)
EXTENDS Integers, Sequences, FiniteSets, TLC

\* ------------------------------------------------------------------ bounds

\* file operations enqueued in one run of the pipeline
MaxOps == 2
\* file operations enqueued in one run of the pipeline under search load
MaxSearchOps == 3
\* mutating calls made on a Text Index in one run of SpecIndex
MaxCalls == 4
\* the longest sequence of operations that is replayed (SpecReplay)
MaxReplay == 2
\* file operations enqueued before the Application is dropped (SpecShutdown)
MaxShutdownOps == 2
\* groups of events the watcher thread receives (SpecWatch)
MaxGroups == 2
\* file operations enqueued in a run with a poisoned mutex (SpecPoison)
MaxPoisonOps == 2

\* ------------------------------------------------------------------- paths

P_at == <<"a", ".", "t">>
P_bt == <<"b", ".", "t">>
P_cl == <<"c", ".", "l">>
\* a file beside directory d whose name begins like it
P_dt == <<"d", ".", "t">>
P_dat == <<"d", "/", "a", ".", "t">>
P_eat == <<"e", "/", "a", ".", "t">>
P_ecl == <<"e", "/", "c", ".", "l">>
D_d == <<"d">>
D_e == <<"e">>

\* every file path a document can carry
Paths == {P_at, P_bt, P_cl, P_dt, P_dat, P_eat, P_ecl}
\* the same, in the order of the engine's term dictionary (sorted terms)
PathOrder == <<P_at, P_bt, P_cl, P_dt, P_dat, P_eat, P_ecl>>
\* paths that file events name
FilePaths == {P_at, P_bt, P_cl, P_dat}
Dirs == {D_d, D_e}

\* file contents: one word each, so that a keyword hits a document iff it
\* equals the content
Contents == {"alpha", "beta"}

LoadErr == "load_error"

Docs == [path : Paths, content : Contents]

File(p, c) == [path |-> p, content |-> c]

\* str::starts_with
StartsWith(s, prefix) ==
  /\ Len(prefix) <= Len(s)
  /\ SubSeq(s, 1, Len(prefix)) = prefix

\* index of the last occurrence of ch in s, 0 when there is none
RECURSIVE LastIndexOf(_, _)
LastIndexOf(s, ch) ==
  IF s = <<>> THEN 0
  ELSE IF s[Len(s)] = ch THEN Len(s)
  ELSE LastIndexOf(SubSeq(s, 1, Len(s) - 1), ch)

\* the final component of a path
FileName(p) == SubSeq(p, LastIndexOf(p, "/") + 1, Len(p))

\* Path::extension: the part of the file name after its last ".", none when
\* the name has no "." or only a leading one
Extension(p) ==
  LET name == FileName(p)
      dot == LastIndexOf(name, ".")
  IN IF dot <= 1 THEN <<>> ELSE SubSeq(name, dot + 1, Len(name))

\* the configured allow-list (--extensions)
AllowedExtensions == {<<"t">>}

\* a filter that accepts every path
is_target_Any(path) == TRUE

\* ExtensionFileFilter::is_target
is_target(path) ==
  /\ Extension(path) # <<>>
  /\ Extension(path) \in AllowedExtensions

\* ----------------------------------------------------------- the engine

EmptyBag == [d \in Docs |-> 0]

BagAdd(b, d) == [b EXCEPT ![d] = @ + 1]

\* every document whose file_path term equals path is removed
BagDeletePath(b, path) == [d \in Docs |-> IF d.path = path THEN 0 ELSE b[d]]

BagSize(b) ==
  LET RECURSIVE Sum(_)
      Sum(S) == IF S = {} THEN 0
                ELSE LET d == CHOOSE x \in S : TRUE IN b[d] + Sum(S \ {d})
  IN Sum(Docs)

\* documents of a bag that carry the path
CountAt(b, path) ==
  LET RECURSIVE Sum(_)
      Sum(S) == IF S = {} THEN 0
                ELSE LET c == CHOOSE x \in S : TRUE
                     IN b[File(path, c)] + Sum(S \ {c})
  IN Sum(Contents)

PathsOf(b) == {p \in Paths : CountAt(b, p) > 0}

\* staged writer operations; batch is the flush that staged it (0: none),
\* ok whether the TextIndex call that staged it returned Ok
StagedAdd(file, batch) ==
  [kind |-> "add", path |-> file.path, content |-> file.content,
   batch |-> batch, ok |-> TRUE]

StagedDel(path, batch, ok) ==
  [kind |-> "del", path |-> path, content |-> "", batch |-> batch, ok |-> ok]

ApplyStagedOp(b, s) ==
  IF s.kind = "add" THEN BagAdd(b, File(s.path, s.content))
  ELSE BagDeletePath(b, s.path)

\* IndexWriter::commit: the staged log applied in opstamp order
RECURSIVE ApplyStaged(_, _)
ApplyStaged(b, staged) ==
  IF staged = <<>> THEN b
  ELSE ApplyStaged(ApplyStagedOp(b, Head(staged)), Tail(staged))

\* ------------------------------------------------------------ Text Index

\* TextIndex::new: committed is what the index directory holds, view what
\* self.reader's searcher sees, staged the writer's uncommitted log
NewIndex(persisted) ==
  [committed |-> persisted, view |-> persisted, staged |-> <<>>,
   pending |-> 0]

Ret(idx, ok) == [index |-> idx, ok |-> ok]

\* TextIndex::add_doc; engOk: whether writer.add_document succeeds
add_doc(idx, file, batch, engOk) ==
  IF engOk
  THEN Ret([idx EXCEPT !.staged = Append(@, StagedAdd(file, batch)),
                       !.pending = @ + 1], TRUE)
  ELSE Ret(idx, FALSE)

\* TextIndex::replace_doc: delete_term, then add_document
\* replace_doc without its delete_term
replace_doc_NoDelete(idx, file, batch, engOk) == add_doc(idx, file, batch, engOk)

replace_doc(idx, file, batch, engOk) ==
  IF engOk
  THEN Ret([idx EXCEPT !.staged = @ \o <<StagedDel(file.path, batch, TRUE),
                                          StagedAdd(file, batch)>>,
                       !.pending = @ + 1], TRUE)
  ELSE Ret([idx EXCEPT !.staged = Append(@, StagedDel(file.path, batch, FALSE))],
           FALSE)

\* TextIndex::delete_doc
delete_doc_Nothing(idx, path, batch) == Ret(idx, TRUE)

delete_doc(idx, path, batch) ==
  Ret([idx EXCEPT !.staged = Append(@, StagedDel(path, batch, TRUE)),
                  !.pending = @ + 1], TRUE)

\* the file_path terms of the committed segments that start with the prefix,
\* in term order
PrefixTerms(idx, prefix) ==
  SelectSeq(PathOrder,
            LAMBDA p : CountAt(idx.committed, p) > 0 /\ StartsWith(p, prefix))

RECURSIVE StageDeletes(_, _, _)
StageDeletes(staged, terms, batch) ==
  IF terms = <<>> THEN staged
  ELSE StageDeletes(Append(staged, StagedDel(Head(terms), batch, TRUE)),
                    Tail(terms), batch)

\* TextIndex::delete_docs_by_path_prefix; engOk: whether index.reader()
\* succeeds
delete_docs_by_path_prefix(idx, prefix, batch, engOk) ==
  IF engOk
  THEN LET terms == PrefixTerms(idx, prefix)
       IN Ret([idx EXCEPT !.staged = StageDeletes(@, terms, batch),
                          !.pending = @ + Len(terms)], TRUE)
  ELSE Ret(idx, FALSE)

\* commit without its reader.reload()
commit_NoReload(idx, engOk) ==
  IF idx.pending > 0
  THEN IF engOk
       THEN Ret([committed |-> ApplyStaged(idx.committed, idx.staged),
                 view |-> idx.view, staged |-> <<>>, pending |-> 0], TRUE)
       ELSE Ret(idx, FALSE)
  ELSE Ret(idx, TRUE)

\* TextIndex::commit; engOk: whether writer.commit succeeds
commit(idx, engOk) ==
  IF idx.pending > 0
  THEN IF engOk
       THEN LET c == ApplyStaged(idx.committed, idx.staged)
            IN Ret([committed |-> c, view |-> c, staged |-> <<>>,
                    pending |-> 0], TRUE)
       ELSE Ret(idx, FALSE)
  ELSE Ret(idx, TRUE)

SEARCH_FILE_LIMIT == 10

\* a keyword QueryParser::parse_query rejects (it names a field the schema
\* does not have); the others are single words, which it accepts
BadKeyword == "nofield:alpha"

parse_query(keyword) == [ok |-> keyword # BadKeyword, term |-> keyword]

\* TantivyDocument::to_json over the schema: only file_path is STORED, the
\* content is indexed and not stored
to_json(doc_path) == <<"{\"file_path\":[\"">> \o doc_path \o <<"\"]}">>

RECURSIVE Copies(_, _)
Copies(x, n) == IF n = 0 THEN <<>> ELSE <<x>> \o Copies(x, n - 1)

\* the paths of the documents of the reader's view whose content holds the
\* term, one entry per document, from PathOrder[i] on
RECURSIVE MatchesFrom(_, _, _)
MatchesFrom(view, term, i) ==
  IF i > Len(PathOrder) THEN <<>>
  ELSE Copies(PathOrder[i],
              IF term \in Contents THEN view[File(PathOrder[i], term)] ELSE 0)
         \o MatchesFrom(view, term, i + 1)

\* a collector with no limit
AllDocs(matches) == matches

\* TopDocs::with_limit(SEARCH_FILE_LIMIT)
TopDocs(matches) ==
  SubSeq(matches, 1,
         IF Len(matches) < SEARCH_FILE_LIMIT THEN Len(matches)
         ELSE SEARCH_FILE_LIMIT)

\* TextIndex::search: parse the keyword, collect the top documents of the
\* reader's view, return the JSON of each
search(idx, keyword) ==
  LET query == parse_query(keyword)
  IN IF ~query.ok THEN [ok |-> FALSE, results |-> <<>>]
     ELSE LET top_docs == TopDocs(MatchesFrom(idx.view, query.term, 1))
          IN [ok |-> TRUE,
              results |-> [i \in DOMAIN top_docs |-> to_json(top_docs[i])]]

\* results.join(", ")
RECURSIVE join(_, _)
join(results, i) ==
  IF i > Len(results) THEN <<>>
  ELSE (IF i > 1 THEN <<", ">> ELSE <<>>) \o results[i] \o join(results, i + 1)

ToolOk(text) == [ok |-> TRUE, text |-> text]
ToolErr(message) == [ok |-> FALSE, text |-> <<message>>]

\* SearchServer::search_index, given whether lock() returned the guard
search_index(idx, keyword, lockOk) ==
  IF ~lockOk THEN ToolErr("Failed to lock index")
  ELSE LET r == search(idx, keyword)
       IN IF ~r.ok THEN ToolErr("Field does not exist: 'nofield'")
          ELSE IF r.results = <<>> THEN ToolErr("No results found.")
          ELSE ToolOk(<<"[">> \o join(r.results, 1) \o <<"]">>)

\* ------------------------------------------------------- File Operations

FileCreated(p) == [kind |-> "FileCreated", path |-> p, new |-> <<>>]
FileModified(p) == [kind |-> "FileModified", path |-> p, new |-> <<>>]
FileDeleted(p) == [kind |-> "FileDeleted", path |-> p, new |-> <<>>]
FileRenamed(old, new) == [kind |-> "FileRenamed", path |-> old, new |-> new]
DirectoryRenamed(old, new) ==
  [kind |-> "DirectoryRenamed", path |-> old, new |-> new]
DirectoryDeleted(p) == [kind |-> "DirectoryDeleted", path |-> p, new |-> <<>>]

\* the renames the pipeline is driven with: every case of
\* (is_target(old), is_target(new))
RenamePairs ==
  {<<P_at, P_bt>>, <<P_bt, P_at>>, <<P_at, P_dat>>, <<P_at, P_cl>>,
   <<P_cl, P_bt>>, <<P_cl, P_ecl>>}

\* the operations the pipeline is driven with
Ops ==
  {FileCreated(p) : p \in FilePaths} \cup
  {FileModified(p) : p \in FilePaths} \cup
  {FileDeleted(p) : p \in FilePaths} \cup
  {FileRenamed(r[1], r[2]) : r \in RenamePairs} \cup
  {DirectoryRenamed(D_d, D_e), DirectoryRenamed(D_e, D_d)} \cup
  {DirectoryDeleted(d) : d \in Dirs}

\* what load_directory(dir) can yield once its failed entries are dropped
\* (filter_map(Result::ok)): the readable files below dir, each with its
\* content
DirListings(dir) ==
  IF dir = D_e
  THEN {<<>>, <<File(P_eat, "alpha"), File(P_ecl, "alpha")>>,
        <<File(P_eat, "beta")>>}
  ELSE IF dir = D_d
  THEN {<<>>, <<File(P_dat, "alpha")>>, <<File(P_dat, "beta")>>}
  ELSE {<<>>}

\* what load_directory(root) can yield at the initial scan
RootListings ==
  {<<>>, <<File(P_at, "alpha"), File(P_cl, "alpha"), File(P_dat, "beta")>>}

\* the documents an index directory can hold when it is reopened
PersistedIndexes == {EmptyBag, BagAdd(EmptyBag, File(P_at, "alpha"))}

\* outcomes of the engine calls of one operation: all succeed, the first
\* fallible call fails, or the first succeeds and the later ones fail
EngOutcomes == {"ok", "fail", "late_fail"}

Res(idx, res) == [index |-> idx, res |-> res]

\* AddListed without its .filter(is_target)
RECURSIVE AddListed_NoFilter(_, _, _, _)
AddListed_NoFilter(idx, listing, batch, engOk) ==
  IF listing = <<>> THEN idx
  ELSE AddListed_NoFilter(add_doc(idx, Head(listing), batch, engOk).index,
                          Tail(listing), batch, engOk)

\* the add_doc of every listed file that passes the filter, errors logged
\* and skipped (for_each in the DirectoryRenamed arm)
RECURSIVE AddListed(_, _, _, _)
AddListed(idx, listing, batch, engOk) ==
  IF listing = <<>> THEN idx
  ELSE LET f == Head(listing)
       IN IF is_target(f.path)
          THEN AddListed(add_doc(idx, f, batch, engOk).index, Tail(listing),
                         batch, engOk)
          ELSE AddListed(idx, Tail(listing), batch, engOk)

\* RenameBoth without its delete_doc(old)
RenameBoth_NoDelete(idx, op, batch, file, eng) ==
  IF file = LoadErr THEN Res(idx, "load_error")
  ELSE LET a == add_doc(idx, File(op.new, file), batch, eng = "ok")
       IN Res(a.index, IF a.ok THEN "ok" ELSE "engine_error")

\* the (true, true) arm of FileRenamed: load_file(new)?, delete_doc(old)?,
\* add_doc(file)?
RenameBoth(idx, op, batch, file, eng) ==
  IF file = LoadErr THEN Res(idx, "load_error")
  ELSE LET d == delete_doc(idx, op.path, batch)
           a == add_doc(d.index, File(op.new, file), batch, eng = "ok")
       IN Res(a.index, IF a.ok THEN "ok" ELSE "engine_error")

\* the DirectoryDeleted arm
DirDeleted(idx, op, batch, eng) ==
  LET r == delete_docs_by_path_prefix(idx, op.path, batch, eng # "fail")
  IN Res(r.index, IF r.ok THEN "ok" ELSE "engine_error")

\* one arm of the match in process_operations. file is what load_file
\* returns for the path the arm loads (a content, or LoadErr), listing what
\* load_directory yields, eng the outcome of the arm's engine calls.
\* res is "ok" when the arm ran through, else the error `?` returns
ProcessOp(idx, op, batch, file, listing, eng) ==
  CASE op.kind = "FileCreated" ->
         IF ~is_target(op.path) THEN Res(idx, "ok")
         ELSE IF file = LoadErr THEN Res(idx, "load_error")
         ELSE LET r == add_doc(idx, File(op.path, file), batch, eng = "ok")
              IN Res(r.index, IF r.ok THEN "ok" ELSE "engine_error")
    [] op.kind = "FileModified" ->
         IF ~is_target(op.path) THEN Res(idx, "ok")
         ELSE IF file = LoadErr THEN Res(idx, "load_error")
         ELSE LET r == replace_doc(idx, File(op.path, file), batch, eng = "ok")
              IN Res(r.index, IF r.ok THEN "ok" ELSE "engine_error")
    [] op.kind = "FileDeleted" ->
         Res(delete_doc(idx, op.path, batch).index, "ok")
    [] op.kind = "FileRenamed" ->
         IF is_target(op.path) /\ is_target(op.new)
         THEN RenameBoth(idx, op, batch, file, eng)
         ELSE IF is_target(op.path)
         THEN Res(delete_doc(idx, op.path, batch).index, "ok")
         ELSE IF is_target(op.new)
         THEN IF file = LoadErr THEN Res(idx, "load_error")
              ELSE LET r == add_doc(idx, File(op.new, file), batch, eng = "ok")
                   IN Res(r.index, IF r.ok THEN "ok" ELSE "engine_error")
         ELSE Res(idx, "ok")
    [] op.kind = "DirectoryDeleted" -> DirDeleted(idx, op, batch, eng)
    [] op.kind = "DirectoryRenamed" ->
         LET r == delete_docs_by_path_prefix(idx, op.path, batch, eng # "fail")
         IN IF ~r.ok THEN Res(idx, "engine_error")
            ELSE Res(AddListed(r.index, listing, batch, eng = "ok"), "ok")

\* whether the arm of op calls load_file, and for which path
LoadsFile(op) ==
  \/ op.kind \in {"FileCreated", "FileModified"} /\ is_target(op.path)
  \/ op.kind = "FileRenamed" /\ is_target(op.new)

\* the load_file results the arm of op can see
FileResults(op) == IF LoadsFile(op) THEN Contents \cup {LoadErr} ELSE {LoadErr}

\* the load_directory results the arm of op can see
ListingResults(op) ==
  IF op.kind = "DirectoryRenamed" THEN DirListings(op.new) ELSE {<<>>}

\* ScanAdd without its .filter(is_target)
RECURSIVE ScanAdd_NoFilter(_, _, _)
ScanAdd_NoFilter(idx, listing, engOk) ==
  IF listing = <<>> THEN Ret(idx, TRUE)
  ELSE LET r == add_doc(idx, Head(listing), 0, engOk)
       IN IF r.ok THEN ScanAdd_NoFilter(r.index, Tail(listing), engOk)
          ELSE Ret(r.index, FALSE)

\* the add_doc of every scanned file that passes the filter, stopping at the
\* first engine error (try_for_each in initialize_index)
RECURSIVE ScanAdd(_, _, _)
ScanAdd(idx, listing, engOk) ==
  IF listing = <<>> THEN Ret(idx, TRUE)
  ELSE LET f == Head(listing)
       IN IF is_target(f.path)
          THEN LET r == add_doc(idx, f, 0, engOk)
               IN IF r.ok THEN ScanAdd(r.index, Tail(listing), engOk)
                  ELSE Ret(r.index, FALSE)
          ELSE ScanAdd(idx, Tail(listing), engOk)

\* .filter_map(Result::ok): the entries of load_directory that failed to
\* load are dropped
RECURSIVE filter_map_ok(_)
filter_map_ok(listing) ==
  IF listing = <<>> THEN <<>>
  ELSE IF Head(listing).content = LoadErr THEN filter_map_ok(Tail(listing))
  ELSE <<Head(listing)>> \o filter_map_ok(Tail(listing))

\* IndexOperation::initialize_index
initialize_index(idx, listing, eng) ==
  LET a == ScanAdd(idx, filter_map_ok(listing), eng # "fail")
  IN IF ~a.ok THEN a ELSE commit(a.index, eng = "ok")

\* ------------------------------------------------------------------ state

VARIABLES
  index,        \* the TextIndex behind Arc<Mutex<..>>
  lock,         \* holder of the index mutex: "free" or "worker"
  phase,        \* Application::new: "start", "running", or "failed"
  queue,        \* the mpsc channel of IndexOperation
  senderAlive,  \* whether a Sender of the channel still exists
  operations,   \* the worker's buffer (subscribe_operations)
  wpc,          \* the worker's position: "recv", "flush", "apply", "done"
  pos,          \* the operation of the batch process_operations is at
  exiting,      \* the worker saw Disconnected and exits after this flush
  nEnq,         \* operations enqueued so far
  batchNo,      \* flushes started so far
  loaded,       \* what load_file returned for each operation of this flush
  lastFlush,    \* the last finished flush: its batch, loads and outcome
  aborted,      \* the flushes that returned early on an error
  viewBatches,  \* the flushes some staged operation of which readers see
  dropped,      \* operations cleared from the buffer without being run
  lastSearch,   \* what the last search_index call observed
  nCalls,       \* TextIndex calls made so far (SpecIndex)
  lastCall,     \* the last TextIndex call: its kind, whether it returned Ok,
                \* and the mutations that had succeeded since the last
                \* commit when it was made
  okMuts,       \* successful mutating calls since the last commit
  prevView,     \* what readers saw before the last TextIndex call
  shadow,       \* the documents the engine holds once every delete_term
                \* and add_document issued so far is applied
  recording,    \* whether the two histories below are kept (SpecWatch)
  enqueued,     \* history: the operations sent on the channel, in order
  flushed,      \* history: the batches handed to the flush handler, in
                \* flush order, concatenated
  replayS,      \* the sequence of operations that is replayed (SpecReplay)
  replayDisk,   \* the content load_file returns for each path, held fixed
  rpc,          \* how many times replayS has been applied and committed
  docs1,        \* the committed documents after the first application
  docs0,        \* the committed documents before the first application
  replayRes,    \* what the last application returned
  tpc,          \* the thread dropping the Application: "running",
                \* "stopping" (in stop_watching), "dropped", "exited"
  watcherAlive, \* whether the watcher thread is still in event_loop
  indexDropped, \* whether TextIndex::drop has run
  outbox,       \* process_events: the operations of the current group not
                \* yet handed to the handler
  eventLog,     \* history: the events of the groups process_events accepted
  nGroups,      \* event groups the watcher thread has received
  delivered,    \* history: every event the debouncer delivered, with the
                \* number of its group
  poisoned,     \* whether a holder of the index mutex panicked
  scanned,      \* what load_directory(root) yielded at the initial scan
  retry,        \* the locals of one read_file_with_retry call
  timer,        \* the clock, the worker's recv_timeout and what it flushed
  engS,         \* the outcome of the engine calls of each arm run so far
  stopS,        \* the fields of NotifyFileWatcher, the stop channel and the
                \* positions of stop_watching and of event_loop
  walkS,        \* one load_directory call: the entries WalkDir meets, how
                \* many the iterator has consumed and what it has yielded
  lockS         \* where the search handler and initialize_index stand with
                \* respect to the index mutex

workerVars ==
  <<lock, phase, queue, senderAlive, operations, wpc, pos, exiting, nEnq,
    batchNo, loaded, lastFlush, aborted, viewBatches, dropped, lastSearch>>

pipeVars == <<index, workerVars>>

apiVars == <<nCalls, lastCall, okMuts, prevView, shadow>>

histVars == <<recording, enqueued, flushed>>

replayVars == <<replayS, replayDisk, rpc, docs1, docs0, replayRes>>

shutVars == <<tpc, watcherAlive, indexDropped>>

watchVars == <<eventLog, nGroups, delivered>>

extraVars ==
  <<poisoned, scanned, retry, timer, engS, stopS, walkS, lockS>>

auxVars == <<apiVars, replayVars, shutVars, watchVars, extraVars>>

restVars == <<auxVars, histVars, outbox>>

vars == <<pipeVars, restVars>>

\* read_file_with_retry at its entry: pc is the statement it is at, attempt
\* the loop variable, last_error the local of that name, reads the
\* read_to_string calls made, errors their failures in order, sleeps the
\* thread::sleep calls made (ms), result what it returned
NoResult == [ok |-> FALSE, content |-> "", attempts |-> 0, cause |-> ""]

RetryStart ==
  [pc |-> "read", attempt |-> 0, last_error |-> "", reads |-> 0,
   errors |-> <<>>, sleeps |-> <<>>, result |-> NoResult]

\* the clock of the timed worker (in ticks): now, the instant the pending
\* recv_timeout was entered (-1 when the worker is in recv()), the instant
\* the first operation of the buffer was received (-1 when it is empty), the
\* instants of the first and the last send, and per flush the size of the
\* batch, how the handler ended and the engine commits it made
TimerStart ==
  [now |-> 0, wait |-> -1, begun |-> -1, first |-> -1, last |-> -1,
   flushes |-> <<>>]

NoCall == [kind |-> "none", ok |-> TRUE, muts |-> 0]

NoFlush == [ops |-> <<>>, loaded |-> <<>>, batch |-> 0, res |-> "none"]

NoSearch == [keyword |-> "", result |-> ToolOk(<<>>), partial |-> FALSE]

BatchesOf(staged) == {staged[i].batch : i \in DOMAIN staged} \ {0}

\* ----------------------------------------------------------- application

\* no search request yet, initialize_index not yet called
LockStart == [search |-> "idle", scan |-> "idle", nReq |-> 0]

\* no load_directory call yet
WalkStart == [tree |-> <<>>, pos |-> 0, out |-> <<>>, called |-> FALSE]

\* NotifyFileWatcher after watch_directory: stop_tx, thread_handle and
\* watcher are Some; signal is the message in the stop channel; spc is the
\* position of stop_watching, epc that of event_loop; polls counts the
\* returns of recv_timeout while the signal was waiting
StopStart ==
  [stop_tx |-> TRUE, signal |-> FALSE, thread_handle |-> TRUE,
   watcher |-> TRUE, spc |-> "idle", epc |-> "top", calls |-> 0, oks |-> 0,
   polls |-> 0]


\* Application::new up to the spawn of the worker: the index is created
\* empty or opened from an index directory, the channel is empty
InitFrom(indexes) ==
  /\ \E persisted \in indexes : index = NewIndex(persisted)
  /\ lock = "free"
  /\ phase = "start"
  /\ queue = <<>>
  /\ senderAlive = TRUE
  /\ operations = <<>>
  /\ wpc = "recv"
  /\ pos = 0
  /\ exiting = FALSE
  /\ nEnq = 0
  /\ batchNo = 0
  /\ loaded = <<>>
  /\ lastFlush = NoFlush
  /\ aborted = {}
  /\ viewBatches = {}
  /\ dropped = 0
  /\ lastSearch = NoSearch
  /\ nCalls = 0
  /\ lastCall = NoCall
  /\ okMuts = 0
  /\ prevView = index.view
  /\ shadow = index.committed
  /\ enqueued = <<>>
  /\ flushed = <<>>
  /\ rpc = 0
  /\ docs1 = {}
  /\ replayRes = "none"
  /\ tpc = "running"
  /\ watcherAlive = TRUE
  /\ indexDropped = FALSE
  /\ outbox = <<>>
  /\ eventLog = <<>>
  /\ nGroups = 0
  /\ delivered = <<>>
  /\ poisoned = FALSE
  /\ scanned = <<>>
  /\ retry = RetryStart
  /\ timer = TimerStart
  /\ engS = <<>>
  /\ stopS = StopStart
  /\ walkS = WalkStart
  /\ lockS = LockStart

InitPipe == InitFrom(PersistedIndexes)

NoDisk == [p \in Paths |-> LoadErr]

Init ==
  /\ InitPipe
  /\ docs0 = EmptyBag
  /\ recording = FALSE
  /\ replayS = <<>>
  /\ replayDisk = NoDisk

\* Application::new: initialize_index(watch_dir), then the watcher is
\* attached; an error ends the start-up
InitialScanOf(listings) ==
  /\ phase = "start"
  /\ lock = "free"
  /\ \E listing \in listings, eng \in EngOutcomes :
       LET r == initialize_index(index, listing, eng)
       IN /\ index' = r.index
          /\ phase' = IF r.ok THEN "running" ELSE "failed"
          /\ scanned' = listing
  /\ UNCHANGED <<apiVars, replayVars, shutVars, watchVars, engS, stopS, walkS, lockS, histVars, outbox,
                 poisoned, retry, timer>>
  /\ UNCHANGED <<lock, queue, senderAlive, operations, wpc, pos, exiting,
                 nEnq, batchNo, loaded, lastFlush, aborted, viewBatches,
                 dropped, lastSearch>>

InitialScan == InitialScanOf(RootListings)

\* IndexOperation::enqueue: send on the unbounded channel (outbox is left
\* to the caller)
Enqueue(op, limit) ==
  /\ phase = "running"
  /\ senderAlive
  /\ nEnq < limit
  /\ queue' = Append(queue, op)
  /\ nEnq' = nEnq + 1
  /\ enqueued' = IF recording THEN Append(enqueued, op) ELSE enqueued
  /\ UNCHANGED <<auxVars, recording, flushed>>
  /\ UNCHANGED <<index, lock, phase, senderAlive, operations, wpc, pos,
                 exiting, batchNo, loaded, lastFlush, aborted, viewBatches,
                 dropped, lastSearch>>

\* the last Sender is dropped (the watcher's handler and the Application go)
DropSender ==
  /\ phase = "running"
  /\ senderAlive
  /\ senderAlive' = FALSE
  /\ UNCHANGED restVars
  /\ UNCHANGED <<index, lock, phase, queue, operations, wpc, pos, exiting,
                 nEnq, batchNo, loaded, lastFlush, aborted, viewBatches,
                 dropped, lastSearch>>

\* ---------------------------------------------------------------- worker

MAX_BULK_OPERATION_SIZE == 10

\* WorkerReceive without the flush at MAX_BULK_OPERATION_SIZE
WorkerReceive_NoLimit ==
  /\ wpc = "recv"
  /\ queue # <<>>
  /\ operations' = Append(operations, Head(queue))
  /\ queue' = Tail(queue)
  /\ UNCHANGED restVars
  /\ UNCHANGED <<index, lock, phase, senderAlive, pos, exiting, nEnq, batchNo,
                 loaded, lastFlush, aborted, viewBatches, dropped, lastSearch,
                 wpc>>

\* WorkerReceive, taking the newest operation of the channel
WorkerReceive_Lifo ==
  /\ wpc = "recv"
  /\ queue # <<>>
  /\ operations' = Append(operations, queue[Len(queue)])
  /\ queue' = SubSeq(queue, 1, Len(queue) - 1)
  /\ wpc' = IF Len(operations') >= MAX_BULK_OPERATION_SIZE THEN "flush"
            ELSE "recv"
  /\ UNCHANGED restVars
  /\ UNCHANGED <<index, lock, phase, senderAlive, pos, exiting, nEnq, batchNo,
                 loaded, lastFlush, aborted, viewBatches, dropped, lastSearch>>

\* subscribe_operations, Ok(operation): push, flush at the size limit
WorkerReceive ==
  /\ wpc = "recv"
  /\ queue # <<>>
  /\ operations' = Append(operations, Head(queue))
  /\ queue' = Tail(queue)
  /\ wpc' = IF Len(operations') >= MAX_BULK_OPERATION_SIZE THEN "flush"
            ELSE "recv"
  /\ UNCHANGED restVars
  /\ UNCHANGED <<index, lock, phase, senderAlive, pos, exiting, nEnq, batchNo,
                 loaded, lastFlush, aborted, viewBatches, dropped, lastSearch>>

\* subscribe_operations, Err(Timeout): nothing arrived for
\* WAIT_MILLIS_FOR_NEXT_UPDATE_TO_BULK while the buffer was non-empty
WorkerTimeout ==
  /\ wpc = "recv"
  /\ operations # <<>>
  /\ queue = <<>>
  /\ senderAlive
  /\ wpc' = "flush"
  /\ UNCHANGED restVars
  /\ UNCHANGED <<index, lock, phase, queue, senderAlive, operations, pos,
                 exiting, nEnq, batchNo, loaded, lastFlush, aborted,
                 viewBatches, dropped, lastSearch>>

\* WorkerDisconnected leaving the loop without its flush
WorkerDisconnected_NoFlush ==
  /\ wpc = "recv"
  /\ queue = <<>>
  /\ ~senderAlive
  /\ exiting' = TRUE
  /\ wpc' = "done"
  /\ UNCHANGED restVars
  /\ UNCHANGED <<index, lock, phase, queue, senderAlive, operations, pos,
                 nEnq, batchNo, loaded, lastFlush, aborted, viewBatches,
                 dropped, lastSearch>>

\* subscribe_operations, Err(Disconnected): flush what is buffered, then
\* leave the loop
WorkerDisconnected ==
  /\ wpc = "recv"
  /\ queue = <<>>
  /\ ~senderAlive
  /\ exiting' = TRUE
  /\ wpc' = IF operations # <<>> THEN "flush" ELSE "done"
  /\ UNCHANGED restVars
  /\ UNCHANGED <<index, lock, phase, queue, senderAlive, operations, pos,
                 nEnq, batchNo, loaded, lastFlush, aborted, viewBatches,
                 dropped, lastSearch>>

\* process_operations: text_index.lock() is Ok
WorkerLock ==
  /\ wpc = "flush"
  /\ lock = "free"
  /\ ~poisoned
  /\ lock' = "worker"
  /\ wpc' = "apply"
  /\ pos' = 1
  /\ batchNo' = batchNo + 1
  /\ loaded' = <<>>
  /\ flushed' = IF recording THEN flushed \o operations ELSE flushed
  /\ UNCHANGED <<auxVars, recording, enqueued, outbox>>
  /\ UNCHANGED <<index, phase, queue, senderAlive, operations, exiting, nEnq,
                 lastFlush, aborted, viewBatches, dropped, lastSearch>>

\* where the worker goes when handle_operations returns
AfterFlush == IF exiting THEN "done" ELSE "recv"

\* process_operations: one arm of the loop. An error returns from the
\* closure: the guard is dropped, handle_operations logs and clears the
\* buffer
WorkerApply ==
  /\ wpc = "apply"
  /\ pos <= Len(operations)
  /\ LET op == operations[pos]
     IN \E file \in FileResults(op), listing \in ListingResults(op),
           eng \in EngOutcomes :
          LET r == ProcessOp(index, op, batchNo, file, listing, eng)
          IN /\ index' = r.index
             /\ IF r.res = "ok"
                THEN /\ pos' = pos + 1
                     /\ loaded' = Append(loaded, file)
                     /\ UNCHANGED <<lock, operations, wpc, lastFlush, aborted,
                                    dropped>>
                ELSE /\ lock' = "free"
                     /\ wpc' = AfterFlush
                     /\ pos' = 0
                     /\ loaded' = <<>>
                     /\ lastFlush' = [ops |-> operations,
                                      loaded |-> Append(loaded, file),
                                      batch |-> batchNo, res |-> r.res]
                     /\ aborted' = aborted \cup {batchNo}
                     /\ dropped' = dropped + (Len(operations) - pos)
                     /\ operations' = <<>>
  /\ UNCHANGED restVars
  /\ UNCHANGED <<phase, queue, senderAlive, exiting, nEnq, batchNo,
                 viewBatches, lastSearch>>

\* process_operations: index.commit()? after the loop, the guard is dropped,
\* handle_operations clears the buffer
WorkerCommit ==
  /\ wpc = "apply"
  /\ pos > Len(operations)
  /\ \E engOk \in BOOLEAN :
       LET r == commit(index, engOk)
       IN /\ index' = r.index
          /\ viewBatches' = IF r.ok /\ index.pending > 0
                            THEN viewBatches \cup BatchesOf(index.staged)
                            ELSE viewBatches
          /\ lastFlush' = [ops |-> operations, loaded |-> loaded,
                           batch |-> batchNo,
                           res |-> IF r.ok THEN "committed" ELSE "engine_error"]
  /\ lock' = "free"
  /\ wpc' = AfterFlush
  /\ pos' = 0
  /\ loaded' = <<>>
  /\ operations' = <<>>
  /\ UNCHANGED restVars
  /\ UNCHANGED <<phase, queue, senderAlive, exiting, nEnq, batchNo, aborted,
                 dropped, lastSearch>>

\* ---------------------------------------------------------------- search

Keywords == Contents

\* SearchServer::search_index: lock the index, search, release
Search(keyword) ==
  /\ phase = "running"
  /\ lock = "free"
  /\ ~poisoned
  /\ lastSearch' = [keyword |-> keyword,
                    result |-> search_index(index, keyword, TRUE),
                    partial |-> viewBatches \cap aborted # {}]
  /\ UNCHANGED restVars
  /\ UNCHANGED <<index, lock, phase, queue, senderAlive, operations, wpc, pos,
                 exiting, nEnq, batchNo, loaded, lastFlush, aborted,
                 viewBatches, dropped>>

Next ==
  \/ InitialScan
  \/ \E op \in Ops : Enqueue(op, MaxOps) /\ UNCHANGED outbox
  \/ DropSender
  \/ WorkerReceive
  \/ WorkerTimeout
  \/ WorkerDisconnected
  \/ WorkerLock
  \/ WorkerApply
  \/ WorkerCommit

Spec == Init /\ [][Next]_vars

\* the pipeline under search load, driven with a few operations
SearchOps == {FileCreated(P_at), FileCreated(P_bt), FileDeleted(P_at)}

NextSearch ==
  \/ InitialScan
  \/ \E op \in SearchOps : Enqueue(op, MaxSearchOps) /\ UNCHANGED outbox
  \/ DropSender
  \/ WorkerReceive
  \/ WorkerTimeout
  \/ WorkerDisconnected
  \/ WorkerLock
  \/ WorkerApply
  \/ WorkerCommit
  \/ \E keyword \in Keywords : Search(keyword)

SpecSearch == Init /\ [][NextSearch]_vars

\* ------------------------------------------------- the Text Index alone

\* the documents and prefixes the TextIndex is called with
ApiFiles == {File(P_at, "alpha"), File(P_at, "beta"), File(P_dat, "alpha")}
ApiPaths == {P_at, P_dat}
ApiPrefixes == {D_d}

\* one call on the TextIndex: r is what it returned, kind its name, sh the
\* engine's documents once every operation issued so far is applied, mut
\* whether the call staged a mutation and returned Ok
ApiCall(kind, r, sh, mut) ==
  /\ phase = "start"
  /\ nCalls < MaxCalls
  /\ nCalls' = nCalls + 1
  /\ index' = r.index
  /\ lastCall' = [kind |-> kind, ok |-> r.ok, muts |-> okMuts]
  /\ okMuts' = IF kind = "commit" /\ r.ok THEN 0
               ELSE IF mut THEN okMuts + 1 ELSE okMuts
  /\ prevView' = index.view
  /\ shadow' = sh
  /\ UNCHANGED <<workerVars, replayVars, shutVars, watchVars, histVars,
                 extraVars, outbox>>

ApiAddDoc ==
  \E file \in ApiFiles, engOk \in BOOLEAN :
    ApiCall("add_doc", add_doc(index, file, 0, engOk),
            IF engOk THEN BagAdd(shadow, file) ELSE shadow, engOk)

ApiReplaceDoc ==
  \E file \in ApiFiles, engOk \in BOOLEAN :
    ApiCall("replace_doc", replace_doc(index, file, 0, engOk),
            IF engOk THEN BagAdd(BagDeletePath(shadow, file.path), file)
            ELSE BagDeletePath(shadow, file.path), engOk)

ApiDeleteDoc ==
  \E path \in ApiPaths :
    ApiCall("delete_doc", delete_doc(index, path, 0),
            BagDeletePath(shadow, path), TRUE)

ApiDeleteByPrefix ==
  \E prefix \in ApiPrefixes, engOk \in BOOLEAN :
    LET hit == {p \in PathsOf(index.committed) : StartsWith(p, prefix)}
    IN ApiCall("delete_docs_by_path_prefix",
               delete_docs_by_path_prefix(index, prefix, 0, engOk),
               IF engOk
               THEN [d \in Docs |-> IF d.path \in hit THEN 0 ELSE shadow[d]]
               ELSE shadow,
               engOk /\ hit # {})

ApiCommit ==
  \E engOk \in BOOLEAN :
    ApiCall("commit", commit(index, engOk), shadow, FALSE)

NextIndex ==
  \/ ApiAddDoc
  \/ ApiReplaceDoc
  \/ ApiDeleteDoc
  \/ ApiDeleteByPrefix
  \/ ApiCommit

SpecIndex == Init /\ [][NextIndex]_vars

\* ------------------------------------------------------------- replay

\* the path whose content the arm of op loads
LoadPath(op) == IF op.kind = "FileRenamed" THEN op.new ELSE op.path

\* load_file for the arm of op, from a disk whose contents are held fixed
DiskFile(disk, op) == IF LoadsFile(op) THEN disk[LoadPath(op)] ELSE LoadErr

\* load_directory(dir) from that disk: the readable files below dir
DiskListing(disk, op) ==
  IF op.kind # "DirectoryRenamed" THEN <<>>
  ELSE LET under == SelectSeq(PathOrder,
                      LAMBDA p : /\ StartsWith(p, op.new \o <<"/">>)
                                 /\ disk[p] # LoadErr)
       IN [i \in 1..Len(under) |-> File(under[i], disk[under[i]])]

\* the loop of process_operations over a whole batch, stopping at the first
\* error
RECURSIVE RunOps(_, _, _, _)
RunOps(idx, ops, batch, disk) ==
  IF ops = <<>> THEN Res(idx, "ok")
  ELSE LET op == Head(ops)
           r == ProcessOp(idx, op, batch, DiskFile(disk, op),
                          DiskListing(disk, op), "ok")
       IN IF r.res # "ok" THEN r
          ELSE RunOps(r.index, Tail(ops), batch, disk)

\* the closure process_operations returns, on one batch: the loop, then
\* index.commit()
process_operations(idx, ops, batch, disk) ==
  LET r == RunOps(idx, ops, batch, disk)
  IN IF r.res # "ok" THEN r
     ELSE Res(commit(r.index, TRUE).index, "committed")

\* the set of documents of an index
DocSet(b) == {d \in Docs : b[d] > 0}

\* the sequences that are replayed
ReplaySeqs == UNION {[1..n -> Ops] : n \in 1..MaxReplay}

\* the disks they are replayed on: every file readable, contents fixed
ReplayDisks ==
  {[p \in Paths |-> "alpha"],
   [p \in Paths |-> IF p \in {P_at, P_eat} THEN "beta" ELSE "alpha"]}

\* the indexes a batch is replayed on: empty, one document, two documents
\* of one path (left by an earlier add_doc on an indexed path), an index
\* written under another extension list, and one with a file beside a
\* directory of a like name
ReplayIndexes ==
  PersistedIndexes \cup
  {BagAdd(BagAdd(EmptyBag, File(P_at, "alpha")), File(P_at, "beta")),
   BagAdd(BagAdd(EmptyBag, File(P_cl, "alpha")), File(P_dat, "beta")),
   BagAdd(BagAdd(EmptyBag, File(P_dt, "alpha")), File(P_dat, "alpha"))}

InitReplay ==
  /\ InitFrom(ReplayIndexes)
  /\ docs0 = index.committed
  /\ recording = FALSE
  /\ replayS \in ReplaySeqs
  /\ replayDisk \in ReplayDisks

\* replayS is applied as one batch and committed
ReplayApply ==
  /\ rpc < 2
  /\ LET r == process_operations(index, replayS, rpc + 1, replayDisk)
     IN /\ index' = r.index
        /\ docs1' = IF rpc = 0 THEN DocSet(r.index.committed) ELSE docs1
        /\ replayRes' = r.res
  /\ rpc' = rpc + 1
  /\ UNCHANGED <<workerVars, apiVars, shutVars, watchVars, histVars, extraVars,
                 outbox, replayS, replayDisk, docs0>>

NextReplay == ReplayApply

SpecReplay == InitReplay /\ [][NextReplay]_vars

\* --------------------------------------- a batch under engine errors

\* process_operations: the arm of the next operation of replayS, with the
\* outcome of its engine calls; an error returns from the closure
EngineArm ==
  /\ rpc = 0
  /\ Len(engS) < Len(replayS)
  /\ \E eng \in EngOutcomes :
       LET op == replayS[Len(engS) + 1]
           r == ProcessOp(index, op, 1, DiskFile(replayDisk, op),
                          DiskListing(replayDisk, op), eng)
       IN /\ index' = r.index
          /\ engS' = Append(engS, eng)
          /\ IF r.res = "ok"
             THEN UNCHANGED <<rpc, replayRes>>
             ELSE rpc' = 1 /\ replayRes' = r.res
  /\ UNCHANGED <<workerVars, apiVars, shutVars, watchVars, histVars, outbox,
                 poisoned, scanned, retry, timer, stopS, walkS, lockS, replayS, replayDisk, docs0,
                 docs1>>

\* process_operations: index.commit()? after the loop
EngineCommit ==
  /\ rpc = 0
  /\ Len(engS) = Len(replayS)
  /\ \E engOk \in BOOLEAN :
       LET r == commit(index, engOk)
       IN /\ index' = r.index
          /\ replayRes' = IF r.ok THEN "committed" ELSE "engine_error"
  /\ rpc' = 1
  /\ UNCHANGED <<workerVars, apiVars, shutVars, watchVars, histVars,
                 extraVars, outbox, replayS, replayDisk, docs0, docs1>>

NextEngine ==
  \/ EngineArm
  \/ EngineCommit

SpecEngine == InitReplay /\ [][NextEngine]_vars

\* ----------------------------------------------------------- shutdown

\* the operations enqueued before the Application is dropped
ShutdownOps == {FileCreated(P_at), FileModified(P_at), FileDeleted(P_at)}

\* the Application is dropped, field by field: index and _index_operation
\* give up their reference (the worker and the watcher's handler hold the
\* others), then NotifyFileWatcher::drop calls stop_watching, which sends
\* the stop signal
DropApplication ==
  /\ phase = "running"
  /\ tpc = "running"
  /\ tpc' = "stopping"
  /\ UNCHANGED <<pipeVars, apiVars, replayVars, watchVars, histVars, extraVars, outbox,
                 watcherAlive, indexDropped>>

\* event_loop: stop_rx.try_recv() is Ok, the loop breaks and the thread
\* ends; its handler held the last Arc<IndexOperation>, so the Sender is
\* dropped and the worker's JoinHandle with it (the worker is detached)
WatcherStop ==
  /\ tpc = "stopping"
  /\ watcherAlive
  /\ outbox = <<>>
  /\ watcherAlive' = FALSE
  /\ senderAlive' = FALSE
  /\ UNCHANGED <<index, lock, phase, queue, operations, wpc, pos, exiting,
                 nEnq, batchNo, loaded, lastFlush, aborted, viewBatches,
                 dropped, lastSearch>>
  /\ UNCHANGED <<apiVars, replayVars, watchVars, histVars, extraVars, outbox, tpc,
                 indexDropped>>

\* stop_watching: handle.join() returns, the OS watch is removed; the drop
\* of the Application returns
JoinWatcher ==
  /\ tpc = "stopping"
  /\ ~watcherAlive
  /\ tpc' = "dropped"
  /\ UNCHANGED <<pipeVars, apiVars, replayVars, watchVars, histVars, extraVars, outbox,
                 watcherAlive, indexDropped>>

\* the thread that dropped the Application returns from main: the process
\* ends, and the detached worker with it, wherever it is
ProcessExit ==
  /\ tpc = "dropped"
  /\ tpc' = "exited"
  /\ wpc' = IF wpc = "done" THEN "done" ELSE "killed"
  /\ UNCHANGED <<index, lock, phase, queue, senderAlive, operations, pos,
                 exiting, nEnq, batchNo, loaded, lastFlush, aborted,
                 viewBatches, dropped, lastSearch>>
  /\ UNCHANGED <<apiVars, replayVars, watchVars, histVars, extraVars, outbox,
                 watcherAlive, indexDropped>>

\* impl Drop for TextIndex
drop(idx, engOk) == IF idx.pending > 0 THEN commit(idx, engOk).index ELSE idx

\* the worker thread has left its loop and gives up the last reference to
\* the index: TextIndex::drop runs
IndexDrop ==
  /\ wpc = "done"
  /\ ~watcherAlive
  /\ tpc \in {"stopping", "dropped"}
  /\ ~indexDropped
  /\ \E engOk \in BOOLEAN : index' = drop(index, engOk)
  /\ indexDropped' = TRUE
  /\ UNCHANGED <<workerVars, apiVars, replayVars, watchVars, histVars, extraVars, outbox,
                 tpc, watcherAlive>>

NextShutdown ==
  \/ InitialScan
  \/ \E op \in ShutdownOps :
       tpc = "running" /\ Enqueue(op, MaxShutdownOps) /\ UNCHANGED outbox
  \/ DropApplication
  \/ WatcherStop
  \/ JoinWatcher
  \/ ProcessExit
  \/ IndexDrop
  \/ WorkerReceive
  \/ WorkerTimeout
  \/ WorkerDisconnected
  \/ WorkerLock
  \/ WorkerApply
  \/ WorkerCommit

SpecShutdown == Init /\ [][NextShutdown]_vars

\* ------------------------------------------------------------ watcher

\* a debounced event: its kind, its paths as notify sends them, and what
\* new.is_file() answers when a rename is processed
Event(kind, paths, newIsFile) ==
  [kind |-> kind, paths |-> paths, newIsFile |-> newIsFile]

\* a path as notify sends it, with its unnecessary "./"
Raw(p) == <<".", "/">> \o p

\* Path::components: the names between separators
RECURSIVE Components(_, _)
Components(s, cur) ==
  IF s = <<>> THEN IF cur = <<>> THEN <<>> ELSE <<cur>>
  ELSE IF Head(s) = "/"
  THEN IF cur = <<>> THEN Components(Tail(s), <<>>)
       ELSE <<cur>> \o Components(Tail(s), <<>>)
  ELSE Components(Tail(s), Append(cur, Head(s)))

\* collect::<PathBuf>: the components joined by the separator
RECURSIVE JoinPath(_)
JoinPath(cs) ==
  IF cs = <<>> THEN <<>>
  ELSE IF Len(cs) = 1 THEN cs[1]
  ELSE cs[1] \o <<"/">> \o JoinPath(Tail(cs))

\* normalize_notify_path: the path without its CurDir components
normalize_notify_path(path) ==
  JoinPath(SelectSeq(Components(path, <<>>), LAMBDA c : c # <<".">>))

NoOp == [kind |-> "none", path |-> <<>>, new |-> <<>>]

OkOp(op) == [ok |-> TRUE, op |-> op]

ErrOp == [ok |-> FALSE, op |-> NoOp]

\* the closure process_paths is given: the operation of one normalized path
PathOp(kind, path) ==
  CASE kind = "Create" -> FileCreated(path)
    [] kind = "ModifyData" -> FileModified(path)
    [] kind = "RemoveFile" -> FileDeleted(path)
    [] kind = "RemoveFolder" -> DirectoryDeleted(path)

\* process_paths: one result per path of the event, in the order of paths
process_paths(paths, kind) ==
  [i \in 1..Len(paths) |->
     OkOp(PathOp(kind, normalize_notify_path(paths[i])))]

\* the closure of flat_map in process_events: the results of one event
EventOps(event) ==
  CASE event.kind \in {"Create", "ModifyData", "RemoveFile", "RemoveFolder"} ->
         process_paths(event.paths, event.kind)
    [] event.kind = "ModifyNameBoth" ->
         IF Len(event.paths) >= 2
         THEN LET old == normalize_notify_path(event.paths[1])
                  new == normalize_notify_path(event.paths[2])
              IN IF event.newIsFile THEN <<OkOp(FileRenamed(old, new))>>
                 ELSE <<OkOp(DirectoryRenamed(old, new))>>
         ELSE <<ErrOp>>
    [] OTHER -> <<>>

\* events.into_iter().flat_map(..)
RECURSIVE FlatMap(_)
FlatMap(events) ==
  IF events = <<>> THEN <<>>
  ELSE EventOps(Head(events)) \o FlatMap(Tail(events))

\* process_events up to the calls of the handler: collect into
\* Result<Vec<_>>, so that one Err discards the operations of the whole group
process_events(events) ==
  LET rs == FlatMap(events)
  IN IF \E i \in DOMAIN rs : ~rs[i].ok THEN [ok |-> FALSE, ops |-> <<>>]
     ELSE [ok |-> TRUE, ops |-> [i \in DOMAIN rs |-> rs[i].op]]

\* the groups of events the debouncer delivers
WatchGroups ==
  {<<Event("Create", <<Raw(P_at)>>, TRUE)>>,
   <<Event("ModifyData", <<Raw(P_at), P_bt>>, TRUE)>>,
   <<Event("ModifyNameBoth", <<P_at, P_bt>>, TRUE),
     Event("ModifyNameBoth", <<P_at>>, TRUE)>>,
   <<Event("ModifyNameBoth", <<Raw(D_d), Raw(D_e)>>, FALSE),
     Event("Other", <<P_at>>, TRUE),
     Event("RemoveFolder", <<Raw(D_d)>>, FALSE)>>,
   <<Event("RemoveFile", <<Raw(P_at)>>, TRUE),
     Event("ModifyOther", <<P_at>>, TRUE),
     Event("ModifyNameBoth", <<Raw(P_at), Raw(P_bt)>>, TRUE)>>}

InitWatch ==
  /\ InitPipe
  /\ docs0 = EmptyBag
  /\ recording = TRUE
  /\ replayS = <<>>
  /\ replayDisk = NoDisk

\* event_loop, Ok(Ok(events)): process_events maps the group; an Err is
\* logged and nothing of the group is handed on
WatcherEvents(group) ==
  /\ phase = "running"
  /\ watcherAlive
  /\ senderAlive
  /\ outbox = <<>>
  /\ nGroups < MaxGroups
  /\ LET r == process_events(group)
     IN /\ outbox' = r.ops
        /\ eventLog' = IF r.ok THEN eventLog \o group ELSE eventLog
  /\ nGroups' = nGroups + 1
  /\ delivered' = delivered \o [i \in DOMAIN group |->
                                 [event |-> group[i], group |-> nGroups + 1]]
  /\ UNCHANGED <<pipeVars, apiVars, replayVars, shutVars, histVars, extraVars>>

\* process_events: handler(&op)? for the next operation of the group
WatcherHand ==
  /\ outbox # <<>>
  /\ Enqueue(Head(outbox), nEnq + 1)
  /\ outbox' = Tail(outbox)

NextWatch ==
  \/ InitialScan
  \/ \E group \in WatchGroups : WatcherEvents(group)
  \/ WatcherHand
  \/ DropSender
  \/ WorkerReceive
  \/ WorkerTimeout
  \/ WorkerDisconnected
  \/ WorkerLock
  \/ WorkerApply
  \/ WorkerCommit

SpecWatch == InitWatch /\ [][NextWatch]_vars

\* ------------------------------------------- one sequence, any batches

\* subscribe_operations hands the next k operations of replayS to
\* process_operations as one batch (the buffer it had when the timeout, the
\* size limit or the disconnection came); engS holds the arms run so far,
\* none of which met an error
SplitFlush(k) ==
  /\ rpc = 0
  /\ k \in 1..(Len(replayS) - Len(engS))
  /\ LET batch == SubSeq(replayS, Len(engS) + 1, Len(engS) + k)
         r == process_operations(index, batch, Len(engS) + 1, replayDisk)
     IN /\ index' = r.index
        /\ replayRes' = r.res
  /\ engS' = engS \o Copies("ok", k)
  /\ rpc' = IF Len(engS) + k = Len(replayS) THEN 1 ELSE 0
  /\ UNCHANGED <<workerVars, apiVars, shutVars, watchVars, histVars, outbox,
                 poisoned, scanned, retry, timer, stopS, walkS, lockS,
                 replayS, replayDisk, docs0, docs1>>

NextSplit == \E k \in 1..MaxReplay : SplitFlush(k)

SpecSplit == InitReplay /\ [][NextSplit]_vars

\* ---------------------------------------------------- the index mutex

\* file operations enqueued and search requests made (SpecLock)
MaxLockOps == 2
MaxSearches == 2

LockOps == {FileCreated(P_at), FileDeleted(P_at)}

\* initialize_index: self.index.lock(), Ok(guard) (or the guard of a
\* poisoned mutex)
ScanLock ==
  /\ phase = "start"
  /\ lockS.scan = "idle"
  /\ lock = "free"
  /\ lock' = "scan"
  /\ lockS' = [lockS EXCEPT !.scan = "holding"]
  /\ UNCHANGED <<apiVars, replayVars, shutVars, watchVars, histVars, outbox,
                 poisoned, scanned, retry, timer, engS, stopS, walkS>>
  /\ UNCHANGED <<index, phase, queue, senderAlive, operations, wpc, pos,
                 exiting, nEnq, batchNo, loaded, lastFlush, aborted,
                 viewBatches, dropped, lastSearch>>

\* initialize_index under the guard: the listing is added and committed;
\* the guard is dropped when the function returns, through `?` as well
ScanRun ==
  /\ lockS.scan = "holding"
  /\ \E listing \in RootListings, eng \in EngOutcomes :
       LET r == initialize_index(index, listing, eng)
       IN /\ index' = r.index
          /\ phase' = IF r.ok THEN "running" ELSE "failed"
          /\ scanned' = listing
  /\ lock' = "free"
  /\ lockS' = [lockS EXCEPT !.scan = "done"]
  /\ UNCHANGED <<apiVars, replayVars, shutVars, watchVars, histVars, outbox,
                 poisoned, retry, timer, engS, stopS, walkS>>
  /\ UNCHANGED <<queue, senderAlive, operations, wpc, pos, exiting, nEnq,
                 batchNo, loaded, lastFlush, aborted, viewBatches, dropped,
                 lastSearch>>

\* a search_index request arrives: the handler calls self.index.lock()
SearchRequest ==
  /\ phase = "running"
  /\ lockS.search = "idle"
  /\ lockS.nReq < MaxSearches
  /\ lockS' = [lockS EXCEPT !.search = "waiting", !.nReq = @ + 1]
  /\ UNCHANGED <<pipeVars, apiVars, replayVars, shutVars, watchVars,
                 histVars, outbox, poisoned, scanned, retry, timer, engS,
                 stopS, walkS>>

\* a lock() that returns a guard whoever holds the mutex
SearchLock_NoWait ==
  /\ lockS.search = "waiting"
  /\ lock' = "search"
  /\ lockS' = [lockS EXCEPT !.search = "holding"]
  /\ UNCHANGED <<apiVars, replayVars, shutVars, watchVars, histVars, outbox,
                 poisoned, scanned, retry, timer, engS, stopS, walkS>>
  /\ UNCHANGED <<index, phase, queue, senderAlive, operations, wpc, pos,
                 exiting, nEnq, batchNo, loaded, lastFlush, aborted,
                 viewBatches, dropped, lastSearch>>

\* search_index: self.index.lock() returns the guard once the mutex is free
SearchLock ==
  /\ lockS.search = "waiting"
  /\ lock = "free"
  /\ lock' = "search"
  /\ lockS' = [lockS EXCEPT !.search = "holding"]
  /\ UNCHANGED <<apiVars, replayVars, shutVars, watchVars, histVars, outbox,
                 poisoned, scanned, retry, timer, engS, stopS, walkS>>
  /\ UNCHANGED <<index, phase, queue, senderAlive, operations, wpc, pos,
                 exiting, nEnq, batchNo, loaded, lastFlush, aborted,
                 viewBatches, dropped, lastSearch>>

\* search_index under the guard: index.search(keyword), the result is
\* formatted and the guard is dropped at the return
SearchRun ==
  /\ lockS.search = "holding"
  /\ \E keyword \in Keywords :
       lastSearch' = [keyword |-> keyword,
                      result |-> search_index(index, keyword, TRUE),
                      partial |-> viewBatches \cap aborted # {}]
  /\ lock' = "free"
  /\ lockS' = [lockS EXCEPT !.search = "idle"]
  /\ UNCHANGED <<apiVars, replayVars, shutVars, watchVars, histVars, outbox,
                 poisoned, scanned, retry, timer, engS, stopS, walkS>>
  /\ UNCHANGED <<index, phase, queue, senderAlive, operations, wpc, pos,
                 exiting, nEnq, batchNo, loaded, lastFlush, aborted,
                 viewBatches, dropped>>

NextLock ==
  \/ ScanLock
  \/ ScanRun
  \/ \E op \in LockOps : Enqueue(op, MaxLockOps) /\ UNCHANGED outbox
  \/ SearchRequest
  \/ SearchLock
  \/ SearchRun
  \/ WorkerReceive
  \/ WorkerTimeout
  \/ WorkerLock
  \/ WorkerApply
  \/ WorkerCommit

\* the steps of the worker thread while the Application lives
WorkerRuns ==
  \/ WorkerReceive
  \/ WorkerTimeout
  \/ WorkerLock
  \/ WorkerApply
  \/ WorkerCommit

\* the threads are scheduled: the start-up thread, the worker and the
\* handler go on, and a lock() on a mutex that stays free returns
SpecLock ==
  /\ Init
  /\ [][NextLock]_vars
  /\ WF_vars(ScanRun)
  /\ WF_vars(WorkerRuns)
  /\ WF_vars(SearchLock)
  /\ WF_vars(SearchRun)

\* ------------------------------------------------------ load_directory

\* the extensions is_text_file matches
TextExtensions ==
  {<<"t", "x", "t">>, <<"m", "d">>, <<"r", "s">>, <<"t", "o", "m", "l">>,
   <<"j", "s", "o", "n">>}

\* is_text_file: the path has an extension and it is one of the five
is_text_file(path) ==
  IF Extension(path) # <<>> THEN Extension(path) \in TextExtensions
  ELSE FALSE

\* the paths WalkDir meets below the directory, in its order: a.txt, b.py,
\* c (no extension), d.md
WalkPaths ==
  <<<<"a", ".", "t", "x", "t">>, <<"b", ".", "p", "y">>, <<"c">>,
    <<"d", ".", "m", "d">>>>

\* what is at one path: nothing, a regular file that can be read, a regular
\* file whose read fails, a directory, or an entry WalkDir fails on
EntryKinds == {"none", "file", "unreadable", "dir", "walk_error"}

\* the directory trees load_directory is called on
WalkTrees ==
  {[i \in DOMAIN WalkPaths |-> [path |-> WalkPaths[i], kind |-> k[i]]] :
     k \in [DOMAIN WalkPaths -> EntryKinds]}

\* load_directory: WalkDir::new(path).into_iter() with its filters and its
\* map, nothing consumed yet
LoadDirectory ==
  /\ ~walkS.called
  /\ \E tree \in WalkTrees :
       walkS' = [tree |-> tree, pos |-> 0, out |-> <<>>, called |-> TRUE]
  /\ UNCHANGED <<pipeVars, apiVars, replayVars, shutVars, watchVars,
                 histVars, outbox, poisoned, scanned, retry, timer, engS,
                 stopS, lockS>>

\* one entry through the iterator: filter_map(e.ok()), filter(is_file),
\* filter(is_text_file), then map(fs::read_to_string)
WalkNext ==
  /\ walkS.called
  /\ walkS.pos < Len(walkS.tree)
  /\ LET entry == walkS.tree[walkS.pos + 1]
         kept == /\ entry.kind \notin {"none", "walk_error"}
                 /\ entry.kind \in {"file", "unreadable"}
                 /\ is_text_file(entry.path)
     IN walkS' = [walkS EXCEPT
                    !.pos = @ + 1,
                    !.out = IF kept
                            THEN Append(@, [path |-> entry.path,
                                            ok |-> entry.kind = "file"])
                            ELSE @]
  /\ UNCHANGED <<pipeVars, apiVars, replayVars, shutVars, watchVars,
                 histVars, outbox, poisoned, scanned, retry, timer, engS,
                 stopS, lockS>>

NextLoad == LoadDirectory \/ WalkNext

SpecLoad == Init /\ [][NextLoad]_vars

\* ------------------------------------------------------- stop_watching

MaxStops == 2

\* stop_watching (also run by Drop): stop_tx.take() and, if it was Some,
\* send(()) with its result ignored
StopBegin ==
  /\ phase = "running"
  /\ stopS.spc = "idle"
  /\ stopS.calls < MaxStops
  /\ stopS' = [stopS EXCEPT !.calls = @ + 1,
                            !.signal = IF stopS.stop_tx THEN TRUE ELSE @,
                            !.stop_tx = FALSE,
                            !.spc = "join"]
  /\ UNCHANGED <<pipeVars, apiVars, replayVars, shutVars, watchVars,
                 histVars, outbox, poisoned, scanned, retry, timer, engS, walkS, lockS>>

\* a join that returns without waiting for the thread
StopJoin_NoWait ==
  /\ stopS.spc = "join"
  /\ stopS' = [stopS EXCEPT !.thread_handle = FALSE, !.spc = "unwatch"]
  /\ UNCHANGED <<pipeVars, apiVars, replayVars, shutVars, watchVars,
                 histVars, outbox, poisoned, scanned, retry, timer, engS, walkS, lockS>>

\* stop_watching: thread_handle.take() and, if it was Some, handle.join(),
\* which returns once the thread has ended
StopJoin ==
  /\ stopS.spc = "join"
  /\ stopS.thread_handle => ~watcherAlive
  /\ stopS' = [stopS EXCEPT !.thread_handle = FALSE, !.spc = "unwatch"]
  /\ UNCHANGED <<pipeVars, apiVars, replayVars, shutVars, watchVars,
                 histVars, outbox, poisoned, scanned, retry, timer, engS, walkS, lockS>>

\* stop_watching: watcher.take() and, if it was Some, unwatch(watch_target)
\* and the drop of the debouncer; Ok(())
StopUnwatch ==
  /\ stopS.spc = "unwatch"
  /\ stopS' = [stopS EXCEPT !.watcher = FALSE, !.spc = "idle", !.oks = @ + 1]
  /\ UNCHANGED <<pipeVars, apiVars, replayVars, shutVars, watchVars,
                 histVars, outbox, poisoned, scanned, retry, timer, engS, walkS, lockS>>

\* event_loop, top of the loop: stop_rx.try_recv().is_ok() breaks, and the
\* thread ends; otherwise recv_timeout is called
LoopCheckStop ==
  /\ phase = "running"
  /\ watcherAlive
  /\ stopS.epc = "top"
  /\ outbox = <<>>
  /\ IF stopS.signal
     THEN /\ watcherAlive' = FALSE
          /\ stopS' = [stopS EXCEPT !.signal = FALSE]
     ELSE /\ watcherAlive' = watcherAlive
          /\ stopS' = [stopS EXCEPT !.epc = "recv"]
  /\ UNCHANGED <<pipeVars, apiVars, replayVars, tpc, indexDropped, watchVars,
                 histVars, outbox, poisoned, scanned, retry, timer, engS, walkS, lockS>>

\* event_loop, rx.recv_timeout is Ok(Ok(events)): process_events maps the
\* group, then the loop goes back to its top
LoopReceive(group) ==
  /\ watcherAlive
  /\ stopS.epc = "recv"
  /\ nGroups < MaxGroups
  /\ LET r == process_events(group)
     IN /\ outbox' = r.ops
        /\ eventLog' = IF r.ok THEN eventLog \o group ELSE eventLog
  /\ nGroups' = nGroups + 1
  /\ delivered' = delivered \o [i \in DOMAIN group |->
                                 [event |-> group[i], group |-> nGroups + 1]]
  /\ stopS' = [stopS EXCEPT !.epc = "top",
                            !.polls = IF stopS.signal THEN @ + 1 ELSE @]
  /\ UNCHANGED <<pipeVars, apiVars, replayVars, shutVars, histVars,
                 poisoned, scanned, retry, timer, engS, walkS, lockS>>

\* event_loop, rx.recv_timeout is Err(Timeout) after 100 ms
LoopTimeout ==
  /\ watcherAlive
  /\ stopS.epc = "recv"
  /\ stopS' = [stopS EXCEPT !.epc = "top",
                            !.polls = IF stopS.signal THEN @ + 1 ELSE @]
  /\ UNCHANGED <<pipeVars, apiVars, replayVars, shutVars, watchVars,
                 histVars, outbox, poisoned, scanned, retry, timer, engS, walkS, lockS>>

\* the steps of the watcher thread
LoopStep ==
  \/ LoopCheckStop
  \/ \E group \in WatchGroups : LoopReceive(group)
  \/ LoopTimeout
  \/ WatcherHand

NextStop ==
  \/ InitialScanOf({<<>>})
  \/ StopBegin
  \/ StopJoin
  \/ StopUnwatch
  \/ LoopCheckStop
  \/ \E group \in WatchGroups : LoopReceive(group)
  \/ LoopTimeout
  \/ WatcherHand

\* the watcher thread is scheduled and recv_timeout returns within 100 ms;
\* a stop_watching that has begun runs on
SpecStop ==
  /\ InitWatch
  /\ [][NextStop]_vars
  /\ WF_vars(LoopStep)
  /\ WF_vars(StopJoin \/ StopUnwatch)

\* ---------------------------------------------------------- poisoned lock

\* the operations enqueued once the mutex is poisoned
PoisonOps == {FileCreated(P_at), FileCreated(P_cl)}

\* a holder of the index mutex panics while holding it: the guard is dropped
\* during unwinding and the mutex is poisoned
ReaderPanic ==
  /\ phase = "running"
  /\ lock = "free"
  /\ ~poisoned
  /\ poisoned' = TRUE
  /\ UNCHANGED <<pipeVars, apiVars, replayVars, shutVars, watchVars, engS, stopS, walkS, lockS, histVars,
                 outbox, scanned, retry, timer>>

\* process_operations: text_index.lock() is Err(PoisonError): the else
\* branch logs, the closure returns Ok(()) and handle_operations clears the
\* buffer
WorkerLockPoisoned ==
  /\ wpc = "flush"
  /\ lock = "free"
  /\ poisoned
  /\ batchNo' = batchNo + 1
  /\ lastFlush' = [ops |-> operations, loaded |-> <<>>, batch |-> batchNo + 1,
                   res |-> "lock_error"]
  /\ dropped' = dropped + Len(operations)
  /\ operations' = <<>>
  /\ wpc' = AfterFlush
  /\ flushed' = IF recording THEN flushed \o operations ELSE flushed
  /\ UNCHANGED <<auxVars, recording, enqueued, outbox>>
  /\ UNCHANGED <<index, lock, phase, queue, senderAlive, pos, exiting, nEnq,
                 loaded, aborted, viewBatches, lastSearch>>

\* SearchServer::search_index: lock() is Err, mapped to
\* "Failed to lock index"
SearchPoisoned(keyword) ==
  /\ phase = "running"
  /\ lock = "free"
  /\ poisoned
  /\ lastSearch' = [keyword |-> keyword,
                    result |-> search_index(index, keyword, FALSE),
                    partial |-> FALSE]
  /\ UNCHANGED restVars
  /\ UNCHANGED <<index, lock, phase, queue, senderAlive, operations, wpc, pos,
                 exiting, nEnq, batchNo, loaded, lastFlush, aborted,
                 viewBatches, dropped>>

NextPoison ==
  \/ InitialScan
  \/ \E op \in PoisonOps : Enqueue(op, MaxPoisonOps) /\ UNCHANGED outbox
  \/ ReaderPanic
  \/ WorkerReceive
  \/ WorkerTimeout
  \/ WorkerLock
  \/ WorkerLockPoisoned
  \/ WorkerApply
  \/ WorkerCommit
  \/ \E keyword \in Keywords : Search(keyword)
  \/ \E keyword \in Keywords : SearchPoisoned(keyword)

SpecPoison == Init /\ [][NextPoison]_vars

\* ------------------------------------------------- the search_index tool

MaxCopies == 6

\* index directories of earlier runs; every restart adds the listed files
\* again, so a path can have several documents
ToolDocs == {File(P_at, "alpha"), File(P_bt, "alpha"), File(P_dat, "beta")}

ToolIndexes ==
  {[d \in Docs |-> IF d \in ToolDocs THEN n[d] ELSE 0] :
     n \in [ToolDocs -> {0, 1, MaxCopies}]}

ToolKeywords == Contents \cup {"gamma", BadKeyword}

InitTool ==
  /\ InitFrom(ToolIndexes)
  /\ docs0 = EmptyBag
  /\ recording = FALSE
  /\ replayS = <<>>
  /\ replayDisk = NoDisk

NextTool ==
  \/ InitialScan
  \/ \E keyword \in ToolKeywords : Search(keyword)

SpecTool == InitTool /\ [][NextTool]_vars

\* ------------------------------------------------------ the initial scan

\* the entries load_directory(root) walks, in its order
ScanOrder == <<P_at, P_bt, P_cl, P_dat>>

\* what one entry can yield: nothing (no such file), Ok(File) with either
\* content, or Err
EntryResults(p) ==
  {<<>>} \cup {<<File(p, c)>> : c \in Contents \cup {LoadErr}}

RECURSIVE ListingsFrom(_)
ListingsFrom(i) ==
  IF i > Len(ScanOrder) THEN {<<>>}
  ELSE {h \o t : h \in EntryResults(ScanOrder[i]), t \in ListingsFrom(i + 1)}

ScanListings == ListingsFrom(1)

InitScan ==
  /\ InitFrom(PersistedIndexes)
  /\ docs0 = index.committed
  /\ recording = FALSE
  /\ replayS = <<>>
  /\ replayDisk = NoDisk

NextScan ==
  \/ InitialScanOf(ScanListings)
  \/ \E keyword \in Keywords : Search(keyword)

SpecScan == InitScan /\ [][NextScan]_vars

\* ------------------------------------------------ read_file_with_retry

\* path_to_file: read_file_with_retry(path, 3)
max_retries == 3

\* the io errors a read_to_string can end with
IoErrors == {"NotFound", "PermissionDenied", "InvalidData"}

\* a sleep of the same length after every failure
sleep_millis_Flat(attempt) == 10

\* Duration::from_millis(10 * (attempt + 1) as u64)
sleep_millis(attempt) == 10 * (attempt + 1)

\* std::fs::read_to_string(path) inside the loop: Ok returns at once, Err
\* sets last_error and either sleeps or goes to the next iteration
RetryRead ==
  /\ retry.pc = "read"
  /\ retry.attempt <= max_retries
  /\ \/ \E content \in Contents :
          retry' = [retry EXCEPT !.reads = @ + 1, !.pc = "done",
                      !.result = [ok |-> TRUE, content |-> content,
                                  attempts |-> 0, cause |-> ""]]
     \/ \E err \in IoErrors :
          retry' = [retry EXCEPT !.reads = @ + 1, !.last_error = err,
                      !.errors = Append(@, err),
                      !.pc = IF retry.attempt < max_retries THEN "sleep"
                             ELSE "read",
                      !.attempt = IF retry.attempt < max_retries THEN @
                                  ELSE @ + 1]
  /\ UNCHANGED <<pipeVars, apiVars, replayVars, shutVars, watchVars, engS, stopS, walkS, lockS, histVars,
                 outbox, poisoned, scanned, timer>>

\* thread::sleep, then the next iteration
RetrySleep ==
  /\ retry.pc = "sleep"
  /\ retry' = [retry EXCEPT !.sleeps = Append(@, sleep_millis(retry.attempt)),
                            !.attempt = @ + 1, !.pc = "read"]
  /\ UNCHANGED <<pipeVars, apiVars, replayVars, shutVars, watchVars, engS, stopS, walkS, lockS, histVars,
                 outbox, poisoned, scanned, timer>>

\* the loop is over: Err("Failed to read file after {max_retries + 1}
\* attempts: {last_error}")
RetryExhausted ==
  /\ retry.pc = "read"
  /\ retry.attempt > max_retries
  /\ retry' = [retry EXCEPT !.pc = "done",
                            !.result = [ok |-> FALSE, content |-> "",
                                        attempts |-> max_retries + 1,
                                        cause |-> retry.last_error]]
  /\ UNCHANGED <<pipeVars, apiVars, replayVars, shutVars, watchVars, engS, stopS, walkS, lockS, histVars,
                 outbox, poisoned, scanned, timer>>

NextRetry ==
  \/ RetryRead
  \/ RetrySleep
  \/ RetryExhausted

SpecRetry == Init /\ [][NextRetry]_vars

\* ------------------------------------------------- the worker with a clock

WAIT_MILLIS_FOR_NEXT_UPDATE_TO_BULK == 500

\* the ticks of the clock that make WAIT_MILLIS_FOR_NEXT_UPDATE_TO_BULK
WaitTicks == 5

\* the instants of the clock, in ms
Millis(ticks) == (ticks * WAIT_MILLIS_FOR_NEXT_UPDATE_TO_BULK) \div WaitTicks

MaxTime == 11
MaxBatchOps == 11

\* the FileCreated operations that are sent, in this order
BatchScript ==
  [i \in 1..MaxBatchOps |->
     FileCreated(<<P_at, P_bt, P_dt, P_dat, P_eat>>[((i - 1) % 5) + 1])]

\* the disks: every file readable, or b.t unreadable after its retries
BatchDisks ==
  {[p \in Paths |-> "alpha"],
   [p \in Paths |-> IF p = P_bt THEN LoadErr ELSE "alpha"]}

InitBatch ==
  /\ InitFrom({EmptyBag})
  /\ docs0 = EmptyBag
  /\ recording = FALSE
  /\ replayS = <<>>
  /\ replayDisk \in BatchDisks

\* time passes
Tick ==
  /\ timer.now < MaxTime
  /\ timer' = [timer EXCEPT !.now = @ + 1]
  /\ UNCHANGED <<pipeVars, apiVars, replayVars, shutVars, watchVars, engS, stopS, walkS, lockS, histVars,
                 outbox, poisoned, scanned, retry>>

\* IndexOperation::enqueue of the next operation of the script
TimedEnqueue ==
  /\ phase = "running"
  /\ nEnq < MaxBatchOps
  /\ queue' = Append(queue, BatchScript[nEnq + 1])
  /\ nEnq' = nEnq + 1
  /\ timer' = [timer EXCEPT !.first = IF nEnq = 0 THEN timer.now ELSE @,
                            !.last = timer.now]
  /\ UNCHANGED <<apiVars, replayVars, shutVars, watchVars, engS, stopS, walkS, lockS, histVars, outbox,
                 poisoned, scanned, retry>>
  /\ UNCHANGED <<index, lock, phase, senderAlive, operations, wpc, pos,
                 exiting, batchNo, loaded, lastFlush, aborted, viewBatches,
                 dropped, lastSearch>>

\* the engine commits of one handler call: index.commit() is reached when
\* every operation returned Ok, and calls writer.commit() when something is
\* pending
EngineCommits(idx, ops, batch, disk) ==
  LET r == RunOps(idx, ops, batch, disk)
  IN IF r.res = "ok" /\ r.index.pending > 0 THEN 1 ELSE 0

\* handle_operations: the handler runs on the buffer, an error is logged,
\* the buffer is cleared
TimedFlush(batch) ==
  LET r == process_operations(index, batch, batchNo + 1, replayDisk)
  IN /\ index' = r.index
     /\ batchNo' = batchNo + 1
     /\ operations' = <<>>
     /\ timer' = [timer EXCEPT
          !.wait = -1,
          !.begun = -1,
          !.flushes = Append(@,
             [size |-> Len(batch), res |-> r.res,
              commits |-> EngineCommits(index, batch, batchNo + 1,
                                        replayDisk)])]

\* subscribe_operations, Ok(operation): push, flush at the size limit, else
\* go round the loop into recv_timeout
TimedReceive ==
  /\ wpc = "recv"
  /\ queue # <<>>
  /\ queue' = Tail(queue)
  /\ LET batch == Append(operations, Head(queue))
     IN IF Len(batch) >= MAX_BULK_OPERATION_SIZE
        THEN TimedFlush(batch)
        ELSE /\ operations' = batch
             /\ timer' = [timer EXCEPT
                  !.wait = timer.now,
                  !.begun = IF operations = <<>> THEN timer.now ELSE @]
             /\ UNCHANGED <<index, batchNo>>
  /\ UNCHANGED <<apiVars, replayVars, shutVars, watchVars, engS, stopS, walkS, lockS, histVars, outbox,
                 poisoned, scanned, retry>>
  /\ UNCHANGED <<lock, phase, senderAlive, wpc, pos, exiting, nEnq, loaded,
                 lastFlush, aborted, viewBatches, dropped, lastSearch>>

\* subscribe_operations, Err(Timeout): recv_timeout returns Timeout when
\* nothing was sent for WAIT_MILLIS_FOR_NEXT_UPDATE_TO_BULK after it was
\* entered; the buffer is non-empty then
TimedTimeout ==
  /\ wpc = "recv"
  /\ operations # <<>>
  /\ queue = <<>>
  /\ Millis(timer.now) - Millis(timer.wait)
       >= WAIT_MILLIS_FOR_NEXT_UPDATE_TO_BULK
  /\ TimedFlush(operations)
  /\ UNCHANGED <<apiVars, replayVars, shutVars, watchVars, engS, stopS, walkS, lockS, histVars, outbox,
                 poisoned, scanned, retry>>
  /\ UNCHANGED <<lock, phase, queue, senderAlive, wpc, pos, exiting, nEnq,
                 loaded, lastFlush, aborted, viewBatches, dropped, lastSearch>>

\* the worker has a step to take at this instant: an operation is in the
\* channel, or the pending recv_timeout has run out
WorkerDue ==
  /\ wpc = "recv"
  /\ \/ queue # <<>>
     \/ /\ operations # <<>>
        /\ Millis(timer.now) - Millis(timer.wait)
             >= WAIT_MILLIS_FOR_NEXT_UPDATE_TO_BULK

\* time passes while the worker is blocked in recv or recv_timeout: a
\* worker that is never delayed takes its step before the clock moves
PromptTick ==
  /\ ~WorkerDue
  /\ Tick

NextBatch ==
  \/ InitialScanOf({<<>>})
  \/ Tick
  \/ TimedEnqueue
  \/ TimedReceive
  \/ TimedTimeout

SpecBatch == InitBatch /\ [][NextBatch]_vars

\* the same worker, never delayed
NextPrompt ==
  \/ InitialScanOf({<<>>})
  \/ PromptTick
  \/ TimedEnqueue
  \/ TimedReceive
  \/ TimedTimeout

SpecPrompt == InitBatch /\ [][NextPrompt]_vars

\* ------------------------------------------------------ a full buffer

MaxBulkOps == 11

\* the operations that are sent, in this order: deletes, with a create
\* whose load can fail among the first ten
BulkScript ==
  [i \in 1..MaxBulkOps |->
     IF i = 3 THEN FileCreated(P_at) ELSE FileDeleted(P_bt)]

NextBulk ==
  \/ InitialScanOf({<<>>})
  \/ Enqueue(BulkScript[nEnq + 1], MaxBulkOps) /\ UNCHANGED outbox
  \/ ReaderPanic
  \/ WorkerReceive
  \/ WorkerTimeout
  \/ WorkerLock
  \/ WorkerLockPoisoned
  \/ WorkerApply
  \/ WorkerCommit

SpecBulk == Init /\ [][NextBulk]_vars

\* ------------------------------------------------- the end of the worker

MaxTermOps == 2

\* the worker thread is scheduled: a step it can take is taken
NextTerm ==
  \/ InitialScan
  \/ \E op \in SearchOps : Enqueue(op, MaxTermOps) /\ UNCHANGED outbox
  \/ DropSender
  \/ ReaderPanic
  \/ WorkerReceive
  \/ WorkerTimeout
  \/ WorkerDisconnected
  \/ WorkerLock
  \/ WorkerLockPoisoned
  \/ WorkerApply
  \/ WorkerCommit

WorkerStep ==
  \/ WorkerReceive
  \/ WorkerTimeout
  \/ WorkerDisconnected
  \/ WorkerLock
  \/ WorkerLockPoisoned
  \/ WorkerApply
  \/ WorkerCommit

SpecTerm == Init /\ [][NextTerm]_vars /\ WF_vars(WorkerStep)

\* ----------------------------------------------------------------- claims

\* the hits of a keyword among the documents of a bag
HitsOf(b, keyword) == search(NewIndex(b), keyword)

\* the queue is drained and the worker has committed
Drained ==
  /\ phase = "running"
  /\ queue = <<>>
  /\ operations = <<>>
  /\ wpc \in {"recv", "done"}
  /\ index.pending = 0

\* C1: every search observes the index as it was after a whole number of
\* completed batches: no search sees a view that holds operations of a flush
\* that stopped early on an error.
C1_BatchAtomic == ~lastSearch.partial

AddsUnder(op, p) ==
  \/ op.kind \in {"FileCreated", "FileModified"} /\ StartsWith(op.path, p)
  \/ op.kind = "FileRenamed" /\ StartsWith(op.new, p)
  \/ op.kind = "DirectoryRenamed"
       /\ (StartsWith(op.new, p) \/ StartsWith(p, op.new))

\* C3: after the commit of a batch that held DirectoryDeleted(p), with no
\* later operation of the batch adding a path that begins with p, no document
\* of the index has a path that begins with p.
C3_PrefixDeleteCorrect ==
  lastFlush.res = "committed" =>
    \A i \in DOMAIN lastFlush.ops :
      LET op == lastFlush.ops[i]
      IN (/\ op.kind = "DirectoryDeleted"
          /\ \A j \in DOMAIN lastFlush.ops :
               j > i => ~AddsUnder(lastFlush.ops[j], op.path))
         => \A q \in PathsOf(index.committed) : ~StartsWith(q, op.path)

\* the state after a committed batch in which FileRenamed{old, new}, both
\* passing the filter, left a document at new with the loaded content and
\* none at old
RenameHolds(i) ==
  LET op == lastFlush.ops[i]
  IN /\ index.committed[File(op.new, lastFlush.loaded[i])] >= 1
     /\ CountAt(index.committed, op.path) = 0

RenameOfTargets(i) ==
  LET op == lastFlush.ops[i]
  IN /\ op.kind = "FileRenamed"
     /\ is_target(op.path)
     /\ is_target(op.new)

\* whether op names the path, or a directory it lies in
Mentions(op, path) ==
  \/ op.path = path
  \/ op.new = path
  \/ op.kind \in {"DirectoryRenamed", "DirectoryDeleted"}
       /\ (StartsWith(path, op.path) \/ StartsWith(path, op.new))

C5_KeyUnique ==
  Drained => \A p \in Paths : CountAt(index.committed, p) <= 1

\* C6: every document of the index, staged or committed, has a path the
\* filter accepts.
C6_FilterCompliance ==
  /\ \A p \in PathsOf(index.committed) \cup PathsOf(index.view) : is_target(p)
  /\ \A i \in DOMAIN index.staged :
       index.staged[i].kind = "add" => is_target(index.staged[i].path)

\* the worker drained a batch that named paths the filter rejects, and the
\* index holds documents
C6_Witness ==
  /\ Drained
  /\ lastFlush.res = "committed"
  /\ lastFlush.ops = <<FileCreated(P_cl), DirectoryRenamed(D_d, D_e)>>
  /\ index.committed[File(P_eat, "alpha")] = 1

\* C10: no operation is discarded without being applied: the worker never
\* clears from its buffer an operation process_operations did not run.
C10_NoDrop == dropped = 0

\* C7: replaying the identical sequence of operations against the state the
\* first application committed yields the same set of documents
C7_BulkIdempotent == rpc = 2 => DocSet(index.committed) = docs1

\* C8: once the drop of the Application has returned, every operation that
\* was enqueued before it has been applied and committed: none is left in
\* the channel or in the worker's buffer, and nothing is left uncommitted
C8_ShutdownComplete ==
  tpc \in {"dropped", "exited"} =>
    queue = <<>> /\ operations = <<>> /\ index.pending = 0

IsPrefix(a, b) == Len(a) <= Len(b) /\ SubSeq(b, 1, Len(a)) = a

\* the operations of a sequence of events, in the order of the events and of
\* the paths within one event
RECURSIVE OpsInOrder(_)
OpsInOrder(events) ==
  IF events = <<>> THEN <<>>
  ELSE LET rs == EventOps(Head(events))
       IN [i \in DOMAIN rs |-> rs[i].op] \o OpsInOrder(Tail(events))

\* C9: the batches handed to the flush handler, concatenated in flush order,
\* are a prefix of the operations in the order they were enqueued, and the
\* operations enqueued and about to be are those of the accepted events, in
\* the order of the events and of the paths within one event
C9_FifoAtMostOnce ==
  /\ IsPrefix(flushed, enqueued)
  /\ enqueued \o outbox = OpsInOrder(eventLog)

C9_Witness ==
  /\ batchNo >= 2
  /\ Len(flushed) >= 3
  /\ flushed = enqueued
  /\ \E i \in DOMAIN eventLog : Len(eventLog[i].paths) = 2
  /\ \E i, j \in DOMAIN flushed : flushed[i] # flushed[j]

\* C11: once the mutex is poisoned, a flush of FileCreated operations that
\* met no load or engine error has made the document of every
\* filter-passing path visible to searches
C11_PoisonRecovery ==
  (poisoned /\ lastFlush.res \in {"committed", "lock_error"}) =>
    \A i \in DOMAIN lastFlush.ops :
      is_target(lastFlush.ops[i].path) =>
        CountAt(index.view, lastFlush.ops[i].path) > 0

\* C12: a flush in which a load_file failed has still run every operation
\* of its batch and has committed what the others staged
C12_LoadErrorPerOp ==
  lastFlush.res = "load_error" =>
    Len(lastFlush.loaded) = Len(lastFlush.ops) /\ index.pending = 0

\* the documents of b without those of the paths the operations of ops name
WithoutPaths(b, ops) ==
  [d \in Docs |-> IF \E i \in DOMAIN ops : ops[i].path = d.path THEN 0
                  ELSE b[d]]

OnlyDeletes(ops) == \A i \in DOMAIN ops : ops[i].kind = "FileDeleted"

\* C13: a batch of FileDeleted operations commits without error and leaves
\* the documents it found, less those of the paths it names, whether or not
\* the filter accepts them; where no document has such a path, nothing
\* changes
C13_DeleteHarmless ==
  (rpc = 1 /\ OnlyDeletes(replayS)) =>
    /\ replayRes = "committed"
    /\ index.committed = WithoutPaths(docs0, replayS)
    /\ (\A i \in DOMAIN replayS : CountAt(docs0, replayS[i].path) = 0)
         => DocSet(index.committed) = DocSet(docs0)

\* FileDeleted of a rejected, indexed path and of a path with no document
C13_Witness ==
  /\ rpc = 1
  /\ replayS = <<FileDeleted(P_cl), FileDeleted(P_bt)>>
  /\ CountAt(docs0, P_cl) = 1
  /\ DocSet(index.committed) = {File(P_dat, "beta")}

\* the last operation of a batch
LastOp(ops) == ops[Len(ops)]

\* C14: when the last operation of a committed batch is FileModified(p), p
\* accepted by the filter, the index holds exactly one document of path p,
\* with the content that was loaded, however many it held before and
\* whatever the batch added earlier; when it is the only operation, the
\* documents of other paths are as they were
C14_ReplaceSemantics ==
  (/\ rpc = 1
   /\ LastOp(replayS).kind = "FileModified"
   /\ is_target(LastOp(replayS).path)) =>
    LET p == LastOp(replayS).path
    IN /\ replayRes = "committed"
       /\ CountAt(index.committed, p) = 1
       /\ index.committed[File(p, replayDisk[p])] = 1
       /\ Len(replayS) = 1 =>
            \A d \in Docs : d.path # p => index.committed[d] = docs0[d]

\* FileCreated(a.t) then FileModified(a.t) on an index that held two
\* documents of a.t
C14_Witness ==
  /\ rpc = 1
  /\ replayS = <<FileCreated(P_at), FileModified(P_at)>>
  /\ CountAt(docs0, P_at) = 2
  /\ replayDisk[P_at] = "beta"
  /\ DocSet(index.committed) = {File(P_at, "beta")}
  /\ CountAt(index.committed, P_at) = 1

\* whether path lies inside directory dir
Under(path, dir) == StartsWith(path, dir \o <<"/">>)

\* C15: when the last operation of a committed batch is
\* DirectoryRenamed{old, new}, no document remains inside old, every listed
\* file of new that passes the filter has a document and no other listed
\* file has one, and, when it is the only operation, the documents that
\* are neither inside old nor listed are as they were
C15_DirectoryRename ==
  (rpc = 1 /\ LastOp(replayS).kind = "DirectoryRenamed") =>
    LET op == LastOp(replayS)
        listing == DiskListing(replayDisk, op)
        listed == {listing[i].path : i \in DOMAIN listing}
    IN /\ replayRes = "committed"
       /\ \A p \in Paths \ listed :
            Under(p, op.path) => CountAt(index.committed, p) = 0
       /\ \A i \in DOMAIN listing :
            IF is_target(listing[i].path)
            THEN index.committed[listing[i]] >= 1
            ELSE CountAt(index.committed, listing[i].path) = 0
       /\ Len(replayS) = 1 =>
            \A d \in Docs :
              (~Under(d.path, op.path) /\ d.path \notin listed) =>
                index.committed[d] = docs0[d]

\* the number of documents of a bag whose content holds the keyword
RECURSIVE NumHitsFrom(_, _, _)
NumHitsFrom(b, keyword, i) ==
  IF i > Len(PathOrder) THEN 0
  ELSE (IF keyword \in Contents THEN b[File(PathOrder[i], keyword)] ELSE 0)
         + NumHitsFrom(b, keyword, i + 1)

NumHits(b, keyword) == NumHitsFrom(b, keyword, 1)

\* the positions of a tool result's text where a hit starts
HitStarts(text) == {i \in DOMAIN text : text[i] = "{\"file_path\":[\""}

\* the text is "[" + hits joined by ", " + "]", each hit the JSON of the
\* file_path of a document of b that holds the keyword
FormattedHits(text, b, keyword) ==
  /\ Len(text) >= 2
  /\ text[1] = "["
  /\ text[Len(text)] = "]"
  /\ 2 \in HitStarts(text)
  /\ \A i \in HitStarts(text) :
       \E j \in DOMAIN text :
         /\ j > i
         /\ text[j] = "\"]}"
         /\ \E q \in Paths : /\ SubSeq(text, i + 1, j - 1) = q
                             /\ b[File(q, keyword)] > 0
         /\ \/ j + 1 = Len(text)
            \/ text[j + 1] = ", " /\ j + 2 \in HitStarts(text)
  /\ \A i \in DOMAIN text :
       text[i] = ", " => i > 1 /\ text[i - 1] = "\"]}"

Min(a, b) == IF a < b THEN a ELSE b

RECURSIVE ExpectedScan(_)
ExpectedScan(listing) ==
  IF listing = <<>> THEN EmptyBag
  ELSE LET f == Head(listing)
       IN IF f.content # LoadErr /\ is_target(f.path)
          THEN BagAdd(ExpectedScan(Tail(listing)), f)
          ELSE ExpectedScan(Tail(listing))

\* C17: after initialize_index returned Ok on an empty index, the committed
\* documents, which are the ones a search sees, are exactly the files that
\* load_directory yielded successfully and whose path passes the filter
C17_InitialScan ==
  (phase = "running" /\ docs0 = EmptyBag) =>
    /\ index.committed = ExpectedScan(scanned)
    /\ index.view = index.committed
    /\ index.staged = <<>>

\* a scan that met an accepted file, a rejected file and an entry that
\* failed to load
C17_Witness ==
  /\ phase = "running"
  /\ docs0 = EmptyBag
  /\ scanned = <<File(P_at, "alpha"), File(P_bt, LoadErr), File(P_cl, "beta")>>
  /\ index.committed = BagAdd(EmptyBag, File(P_at, "alpha"))

RECURSIVE SumSeq(_)
SumSeq(s) == IF s = <<>> THEN 0 ELSE Head(s) + SumSeq(Tail(s))

\* C18: load_file reads at most 4 times; it returns the content at the first
\* read that succeeds and reads no more; it sleeps 10*k ms after the k-th
\* failed read for k = 1, 2, 3 only, at most 60 ms in all; it returns an
\* error only after 4 failed reads, and the error carries the cause of the
\* last one
C18_RetrySchedule ==
  /\ retry.reads <= 4
  /\ Len(retry.errors) <= 4
  /\ Len(retry.sleeps) <= 3
  /\ \A k \in DOMAIN retry.sleeps : retry.sleeps[k] = 10 * k
  /\ SumSeq(retry.sleeps) <= 60
  /\ retry.pc = "read" => Len(retry.sleeps) = Min(Len(retry.errors), 3)
  /\ retry.pc = "sleep" => Len(retry.sleeps) = Len(retry.errors) - 1
  /\ retry.pc = "done" =>
       /\ Len(retry.sleeps) = Min(Len(retry.errors), 3)
       /\ IF retry.result.ok
          THEN /\ retry.reads = Len(retry.errors) + 1
               /\ Len(retry.errors) <= 3
          ELSE /\ retry.reads = 4
               /\ Len(retry.errors) = 4
               /\ retry.result.attempts = 4
               /\ retry.result.cause = retry.errors[4]

\* four reads failed, the last for another reason than the others, after
\* sleeps of 10, 20 and 30 ms
C18_Witness ==
  /\ retry.pc = "done"
  /\ ~retry.result.ok
  /\ retry.errors = <<"NotFound", "NotFound", "NotFound", "PermissionDenied">>
  /\ retry.result.cause = "PermissionDenied"
  /\ retry.sleeps = <<10, 20, 30>>

\* C19: when at most 10 FileCreated operations of accepted paths have been
\* sent to the idle worker, less than 500 ms apart from the first to the
\* last, and the worker has flushed them, they were flushed as one batch
\* and one engine commit was made; no flush makes more than one commit
C19_Coalescing ==
  /\ (/\ nEnq \in 1..MAX_BULK_OPERATION_SIZE
      /\ Millis(timer.last) - Millis(timer.first)
           < WAIT_MILLIS_FOR_NEXT_UPDATE_TO_BULK
      /\ queue = <<>>
      /\ operations = <<>>)
       => /\ Len(timer.flushes) = 1
          /\ timer.flushes[1].size = nEnq
          /\ timer.flushes[1].commits = 1
  /\ \A i \in DOMAIN timer.flushes : timer.flushes[i].commits <= 1

\* the worker is inside handle_operations
InFlush == wpc \in {"flush", "apply"}

\* C20: the worker's buffer never holds more than 10 operations; when it
\* holds 10 the worker is flushing, not receiving; a batch handed to the
\* handler has between 1 and 10 operations; and when handle_operations
\* returns, whether the handler succeeded or failed, the buffer is empty
C20_BatchSize ==
  /\ [](/\ Len(operations) <= MAX_BULK_OPERATION_SIZE
        /\ Len(operations) = MAX_BULK_OPERATION_SIZE => InFlush
        /\ InFlush => Len(operations) \in 1..MAX_BULK_OPERATION_SIZE
        /\ lastFlush.res # "none" =>
             Len(lastFlush.ops) \in 1..MAX_BULK_OPERATION_SIZE)
  /\ [][(InFlush /\ ~InFlush') => operations' = <<>>]_vars

\* a flush of a full buffer failed and left the buffer empty, with
\* operations still in the channel
C20_Witness ==
  /\ Len(lastFlush.ops) = MAX_BULK_OPERATION_SIZE
  /\ lastFlush.res = "load_error"
  /\ operations = <<>>
  /\ wpc = "recv"
  /\ queue # <<>>

\* C21: while the buffer holds a batch, no more than 500 ms have passed
\* since the worker received the first operation of that batch, however
\* further operations arrive
C21_BatchAge ==
  operations # <<>> =>
    Millis(timer.now) - Millis(timer.begun)
      <= WAIT_MILLIS_FOR_NEXT_UPDATE_TO_BULK

\* C22: the worker has left its loop only with every sender dropped, the
\* channel drained and the buffer flushed; it leaves the loop from recv only
\* with an empty buffer; once every sender is dropped it eventually leaves;
\* and while the buffer and the channel are empty and a sender exists it
\* stays in recv and starts no flush
C22_WorkerTermination ==
  /\ [](wpc = "done" => ~senderAlive /\ queue = <<>> /\ operations = <<>>)
  /\ [][(wpc = "recv" /\ wpc' = "done") => operations = <<>>]_vars
  /\ [][(wpc = "recv" /\ operations = <<>> /\ queue = <<>> /\ senderAlive)
         => (wpc' = "recv" /\ batchNo' = batchNo /\ lastFlush' = lastFlush
             /\ operations' = <<>>)]_vars
  /\ (~senderAlive) ~> (wpc = "done")

\* the worker left its loop after a flush of two operations that followed
\* the disconnect
C22_Witness ==
  /\ wpc = "done"
  /\ exiting
  /\ ~senderAlive
  /\ lastFlush.res = "committed"
  /\ Len(lastFlush.ops) = 2
  /\ operations = <<>>

\* whether an engine call of the arm of op returned an error, given the
\* outcome eng of its engine calls
EngineErred(op, eng, disk) ==
  CASE op.kind \in {"FileCreated", "FileModified"} ->
         is_target(op.path) /\ disk[op.path] # LoadErr /\ eng # "ok"
    [] op.kind = "FileDeleted" -> FALSE
    [] op.kind = "FileRenamed" ->
         is_target(op.new) /\ disk[op.new] # LoadErr /\ eng # "ok"
    [] op.kind = "DirectoryDeleted" -> eng = "fail"
    [] op.kind = "DirectoryRenamed" ->
         \/ eng = "fail"
         \/ /\ eng = "late_fail"
            /\ \E p \in Paths : /\ Under(p, op.new)
                                /\ is_target(p)
                                /\ disk[p] # LoadErr

\* C23: when an engine call of an operation returns an error during a
\* flush, no later operation of the batch is run and the flush, when it
\* has ended, has ended with that error
C23_EngineErrorAborts ==
  \A i \in DOMAIN engS :
    EngineErred(replayS[i], engS[i], replayDisk) =>
      /\ Len(engS) = i
      /\ rpc = 1 => replayRes = "engine_error"

\* whether a path has an extension of the allow-list
Passes(path) == Extension(path) \in AllowedExtensions \ {<<>>}

\* the documents the case table gives for FileRenamed{old, new} on the
\* documents b, load_file(new) returning content
RenameTable(b, old, new, content) ==
  IF Passes(old) /\ Passes(new)
  THEN BagAdd(BagDeletePath(b, old), File(new, content))
  ELSE IF Passes(old) THEN BagDeletePath(b, old)
  ELSE IF Passes(new) THEN BagAdd(b, File(new, content))
  ELSE b

\* a batch of one FileRenamed whose engine calls succeeded
OneRename ==
  /\ Len(replayS) = 1
  /\ replayS[1].kind = "FileRenamed"
  /\ engS = <<"ok">>

\* C24: a batch of the single operation FileRenamed{old, new}, the file at
\* new readable and the engine succeeding, stages and then commits exactly
\* the mutations of the case table; with new rejected by the filter no
\* file is loaded
C24_RenameCases ==
  OneRename =>
    LET op == replayS[1]
    IN /\ ~Passes(op.new) => ~LoadsFile(op)
       /\ (rpc = 0 /\ Passes(op.path) /\ Passes(op.new)) =>
            [i \in DOMAIN index.staged |-> index.staged[i].kind]
              = <<"del", "add">>
       /\ rpc = 0 => /\ index.committed = docs0
                     /\ ApplyStaged(docs0, index.staged)
                          = RenameTable(docs0, op.path, op.new,
                                        replayDisk[op.new])
       /\ (rpc = 1 /\ replayRes = "committed") =>
            index.committed = RenameTable(docs0, op.path, op.new,
                                          replayDisk[op.new])

\* the case (F, T) was committed on an index that held a document at the
\* old path: the file at new was added, the document at old stayed
C24_Witness ==
  /\ OneRename
  /\ rpc = 1
  /\ replayRes = "committed"
  /\ replayS[1] = FileRenamed(P_cl, P_bt)
  /\ CountAt(docs0, P_cl) = 1
  /\ CountAt(index.committed, P_cl) = 1
  /\ CountAt(index.committed, P_bt) = 1

\* the path notify sent without its leading "./"
WithoutCurDir(path) ==
  IF Len(path) >= 2 /\ SubSeq(path, 1, 2) = <<".", "/">>
  THEN SubSeq(path, 3, Len(path))
  ELSE path

\* a rename-both event that lacks one of its two paths
Malformed(event) == event.kind = "ModifyNameBoth" /\ Len(event.paths) < 2

\* the operations the mapping table gives one event
MappingTable(event) ==
  LET per(make(_)) ==
        [i \in 1..Len(event.paths) |-> make(WithoutCurDir(event.paths[i]))]
  IN CASE event.kind = "Create" -> per(FileCreated)
       [] event.kind = "ModifyData" -> per(FileModified)
       [] event.kind = "RemoveFile" -> per(FileDeleted)
       [] event.kind = "RemoveFolder" -> per(DirectoryDeleted)
       [] event.kind = "ModifyNameBoth" /\ ~Malformed(event) ->
            IF event.newIsFile
            THEN <<FileRenamed(WithoutCurDir(event.paths[1]),
                               WithoutCurDir(event.paths[2]))>>
            ELSE <<DirectoryRenamed(WithoutCurDir(event.paths[1]),
                                    WithoutCurDir(event.paths[2]))>>
       [] OTHER -> <<>>

RECURSIVE TableOps(_)
TableOps(log) ==
  IF log = <<>> THEN <<>>
  ELSE MappingTable(Head(log).event) \o TableOps(Tail(log))

\* C25: the operations the watcher has emitted (handed to the sink or about
\* to be) are exactly those the mapping table gives the events the debouncer
\* delivered, in order, and no emitted path has a current-directory
\* component
C25_EventMapping ==
  /\ enqueued \o outbox = TableOps(delivered)
  /\ \A i \in DOMAIN enqueued :
       \A path \in {enqueued[i].path, enqueued[i].new} :
         \A j \in DOMAIN Components(path, <<>>) :
           Components(path, <<>>)[j] # <<".">>

\* C26: the operations of an event that shares its group with a malformed
\* rename are still passed to the sink once the group has been processed,
\* and the watcher thread is still running
C26_MalformedIsolation ==
  \A i, j \in DOMAIN delivered :
    (/\ delivered[i].group = delivered[j].group
     /\ Malformed(delivered[j].event)
     /\ ~Malformed(delivered[i].event)
     /\ outbox = <<>>) =>
      /\ watcherAlive
      /\ \A k \in DOMAIN MappingTable(delivered[i].event) :
           \E n \in DOMAIN enqueued :
             enqueued[n] = MappingTable(delivered[i].event)[k]

\* C27: once stop_watching is called the watcher thread eventually ends,
\* after at most one more return of recv_timeout; every call returns Ok, and
\* when it has returned the thread has ended, the OS watch is released and
\* no operation is handed to the sink any more; a call after the first
\* changes nothing
C27_WatcherStop ==
  /\ [](stopS.oks > 0 =>
          ~watcherAlive /\ ~stopS.watcher /\ ~stopS.thread_handle
            /\ outbox = <<>>)
  /\ [](stopS.polls <= 1)
  /\ [](stopS.spc = "idle" => stopS.oks = stopS.calls)
  /\ [][stopS.oks > 0 =>
          /\ nEnq' = nEnq
          /\ queue' = queue
          /\ watcherAlive' = watcherAlive
          /\ stopS'.signal = stopS.signal
          /\ stopS'.watcher = stopS.watcher]_vars
  /\ (stopS.calls > 0) ~> ~watcherAlive
  /\ (stopS.spc # "idle") ~> (stopS.spc = "idle")

\* stop_watching was called twice and returned twice; the first call came
\* while the thread waited in recv_timeout, which then delivered a group
\* whose operations went to the sink before the thread ended
C27_Witness ==
  /\ stopS.calls = 2
  /\ stopS.oks = 2
  /\ stopS.polls = 1
  /\ ~watcherAlive
  /\ nGroups = 1
  /\ nEnq = 2

\* the regular files of a tree, in the order of the walk
RegularFiles(tree) ==
  SelectSeq(tree, LAMBDA entry : entry.kind \in {"file", "unreadable"})

\* C28: once the iterator of load_directory is exhausted it has yielded
\* exactly one result per regular file of the tree, whatever its extension,
\* and none for anything else
C28_LoadDirectoryNoFilter ==
  (walkS.called /\ walkS.pos = Len(walkS.tree)) =>
    [i \in DOMAIN walkS.out |-> walkS.out[i].path]
      = [i \in DOMAIN RegularFiles(walkS.tree) |->
           RegularFiles(walkS.tree)[i].path]

\* C29: whenever the writer holds an uncommitted mutation,
\* pending_operations is above zero, so that the next commit does not take
\* its shortcut, also after a call that returned an error; after a
\* successful commit pending_operations is zero
C29_NoSkippedWork ==
  /\ index.staged # <<>> => index.pending > 0
  /\ (lastCall.kind = "commit" /\ lastCall.ok) => index.pending = 0

\* C30: a committed batch of one DirectoryDeleted(p) or
\* DirectoryRenamed{old = p, new} leaves every document that is neither at
\* p nor inside p (nor inside new) as it was
C30_DirectoryFrame ==
  (/\ Len(replayS) = 1
   /\ replayS[1].kind \in {"DirectoryDeleted", "DirectoryRenamed"}
   /\ rpc = 1
   /\ replayRes = "committed") =>
    LET op == replayS[1]
    IN \A q \in Paths :
         (q # op.path /\ ~Under(q, op.path) /\ ~Under(q, op.new)) =>
           \A c \in Contents :
             index.committed[File(q, c)] = docs0[File(q, c)]

\* C31: the mutex has one holder at a time among the worker's flush, the
\* search handler and the initial scan; the worker takes it once per batch
\* and has released it whenever it is outside a flush, also after a load or
\* engine error; every holder releases it, and every search request that
\* waits for it obtains it
C31_LockDiscipline ==
  /\ [](/\ (wpc = "apply") <=> (lock = "worker")
        /\ (lockS.search = "holding") <=> (lock = "search")
        /\ (lockS.scan = "holding") <=> (lock = "scan"))
  /\ [][(batchNo' # batchNo) <=> (lock # "worker" /\ lock' = "worker")]_vars
  /\ [][(lock = "worker" /\ lock' # "worker") =>
          (lock' = "free" /\ operations' = <<>> /\ wpc' = "recv")]_vars
  /\ (lock # "free") ~> (lock = "free")
  /\ (lockS.search = "waiting") ~> (lockS.search = "holding")

\* a search request waits while the worker holds the mutex in a flush, after
\* an earlier flush ended with a load or engine error
C31_Witness ==
  /\ lockS.search = "waiting"
  /\ lock = "worker"
  /\ wpc = "apply"
  /\ aborted # {}
  /\ lastFlush.res \in {"load_error", "engine_error"}

\* the index after ops were flushed one operation per batch
RECURSIVE OneByOne(_, _, _)
OneByOne(idx, ops, disk) ==
  IF ops = <<>> THEN idx
  ELSE OneByOne(process_operations(idx, <<Head(ops)>>, 1, disk).index,
                Tail(ops), disk)

\* C32: once the whole sequence has been flushed, in whatever batches, the
\* committed documents are those of flushing it one operation per batch
C32_BatchIndependence ==
  (rpc = 1 /\ Len(engS) = Len(replayS)) =>
    DocSet(index.committed)
      = DocSet(OneByOne(NewIndex(docs0), replayS, replayDisk).committed)

====
